---- MODULE Spec2Model ----
(***************************************************************************)
(* AutoDocGen: the section-generation state machine (app/graph.py) and the *)
(* context assembler it calls, the chunk extractor (app/chunking.py) and   *)
(* the index builder (app/save_to_vector_db.py).  A WorkflowState is a     *)
(* Python dict, modelled as a function whose DOMAIN is the set of keys     *)
(* that are present.                                                       *)
(***************************************************************************)
EXTENDS Integers, Sequences, FiniteSets, TLC

VARIABLES
    state,        \* the State dict of the running graph (graph.py:54-82)
    pc,           \* the node the graph runs next, "END" or "raised"
    err,          \* the exception that escaped, "none" while running
    files,        \* the files written so far: path -> content
    last_node,    \* the node that ran last ("start" before the first)
    grader_out,   \* the text the grading service returned last
    write_draft,  \* the draft n_write produced
    nRetrieve, nWrite, nJudge, nRevise,   \* how often each node has run
    r_pc,         \* position inside _retrieve (assembler runs on their own)
    r_spec,       \* the SectionSpec of the assembler run
    c_hits,       \* c_hits after the sort (graph.py:160-162)
    t_hits,       \* t_hits (graph.py:169)
    r_i,          \* index of the next hit of the running for-loop
    acc,          \* parts, per_file, seen, total of _retrieve
    r_last,       \* the outcome of the last try_add
    idx,          \* what the CODE and the TEXT index do when loaded and searched
    repo,         \* the files of the repository extract_all_chunks walks
    x_pc,         \* the pass extract_all_chunks is in
    x_i,          \* index of the next file of the running loop
    chunks,       \* chunks (chunking.py:194)
    cands,        \* every content the length test was applied to so far
    b_args,       \* chunks, min_chars, max_chars of save_to_faiss_split_by_ext
    b_pc,         \* position inside save_to_faiss_split_by_ext
    text_docs, code_docs,     \* the split (save_to_vector_db.py:150-151)
    text_index, code_index,   \* the indexes saved under base_dir
    b_ret,        \* the summary the build returns
    b_round,      \* 1 for the first build, 2 for the build that repeats it
    prev_ids,     \* the ids of the indexes of the first build
    inst,         \* the concurrent graph instances: state, pc, err of each
    cfiles,       \* the files the concurrent instances have written
    cwrites       \* path -> the instances that have written it

wfvars == <<state, pc, err, files, last_node, grader_out, write_draft,
            nRetrieve, nWrite, nJudge, nRevise>>
rvars == <<r_pc, r_spec, c_hits, t_hits, r_i, acc, r_last>>
vars == <<state, pc, err, files, last_node, grader_out, write_draft,
          nRetrieve, nWrite, nJudge, nRevise,
          r_pc, r_spec, c_hits, t_hits, r_i, acc, r_last, idx,
          repo, x_pc, x_i, chunks, cands,
          b_args, b_pc, text_docs, code_docs, text_index, code_index,
          b_ret, b_round, prev_ids,
          inst, cfiles, cwrites>>
xvars == <<repo, x_pc, x_i, chunks, cands>>
bvars == <<b_args, b_pc, text_docs, code_docs, text_index, code_index,
           b_ret, b_round, prev_ids>>
cvars == <<inst, cfiles, cwrites>>

(***************************************************************************)
(* Bounds of the model                                                     *)
(***************************************************************************)
\* n_revise is not taken once retries has reached this value
RetriesCap == 4
\* largest max_retries a caller passes in
MaxMaxRetries == 2
\* number of hits a search of the workflow runs returns at most
MaxRunHits == 1
\* number of files of a repository at most
MaxRepoFiles == 3
\* number of chunks handed to an index build at most
MaxBuildChunks == 3

(***************************************************************************)
(* Program constants                                                       *)
(***************************************************************************)
PER_FILE_CAP == 2
SNIPPET_CHARS == 700
MAX_CONTEXT_CHARS == 6000
\* state.get("max_retries", 2)
DEFAULT_MAX_RETRIES == 2
\* score >= 0.75, scores are counted in hundredths
PASS_SCORE == 75

(***************************************************************************)
(* Python helpers                                                          *)
(***************************************************************************)
\* dict.get(k, d)
Get(d, k, dflt) == IF k \in DOMAIN d THEN d[k] ELSE dflt

\* the graph runtime merges a node's partial update into the state
Merge(st, upd) == upd @@ st

Min(a, b) == IF a < b THEN a ELSE b

\* str.lower() on the letters the model uses
LowerChar(c) ==
    CASE c = "A" -> "a" [] c = "D" -> "d" [] c = "E" -> "e" [] c = "I" -> "i"
      [] c = "B" -> "b" [] c = "C" -> "c" [] c = "F" -> "f" [] c = "G" -> "g"
      [] c = "H" -> "h" [] c = "J" -> "j" [] c = "Q" -> "q" [] c = "V" -> "v"
      [] c = "W" -> "w" [] c = "X" -> "x" [] c = "Z" -> "z"
      [] c = "K" -> "k" [] c = "L" -> "l" [] c = "M" -> "m" [] c = "N" -> "n"
      [] c = "O" -> "o" [] c = "P" -> "p" [] c = "R" -> "r" [] c = "S" -> "s"
      [] c = "T" -> "t" [] c = "U" -> "u" [] c = "Y" -> "y"
      [] OTHER -> c

RECURSIVE LowerFrom(_, _)
LowerFrom(s, i) ==
    IF i > Len(s) THEN "" ELSE LowerChar(SubSeq(s, i, i)) \o LowerFrom(s, i + 1)

\* (the set constructor evaluates s once, before the recursion starts)
Lower(s) == CHOOSE r \in { LowerFrom(v, 1) : v \in {s} } : TRUE

\* str.endswith
EndsWith(s, suffix) ==
    /\ Len(s) >= Len(suffix)
    /\ SubSeq(s, Len(s) - Len(suffix) + 1, Len(s)) = suffix

\* re.search of a literal: the literal occurs somewhere in s
Contains(s, sub) ==
    \E i \in 1..(Len(s) - Len(sub) + 1) : SubSeq(s, i, i + Len(sub) - 1) = sub

\* str.replace(old, new) for a one-character old
RECURSIVE ReplaceFrom(_, _, _, _)
ReplaceFrom(s, i, old, new) ==
    IF i > Len(s) THEN ""
    ELSE (IF SubSeq(s, i, i) = old THEN new ELSE SubSeq(s, i, i))
         \o ReplaceFrom(s, i + 1, old, new)

Replace(s, old, new) == CHOOSE r \in { ReplaceFrom(v, 1, old, new) : v \in {s} } : TRUE

\* str.strip() on the model's texts: blanks and newlines at both ends go
Strip(s) ==
    LET keep == { i \in 1..Len(s) : SubSeq(s, i, i) \notin {" ", "\n"} }
    IN  IF keep = {} THEN ""
        ELSE SubSeq(s, CHOOSE i \in keep : \A j \in keep : i <= j,
                       CHOOSE i \in keep : \A j \in keep : i >= j)

(***************************************************************************)
(* The context assembler: _score_code_hit and _retrieve (graph.py:113-173) *)
(* A hit is a Document: metadata source, type, lines and the page_content, *)
(* of which the assembler uses only the length (id tells contents apart).  *)
(***************************************************************************)
Hit(source, type, lines, id, len) ==
    [source |-> source, type |-> type, lines |-> lines,
     content |-> [id |-> id, len |-> len]]

\* Path(p).name: what follows the last "/"
Basename(p) ==
    LET slashes == { i \in 1..Len(p) : SubSeq(p, i, i) = "/" }
    IN  IF slashes = {} THEN p
        ELSE SubSeq(p, (CHOOSE i \in slashes : \A j \in slashes : i >= j) + 1, Len(p))

_CODE_NAME_BOOST == {"service", "api", "client", "handler", "router",
                     "controller", "model", "view", "util", "utils"}

_DOC_TYPES == {"module_docstring", "functiondef_docstring", "classdef_docstring"}

_score_code_hit(d) ==
    LET src == Basename(d.source)
        t   == Lower(d.type)
    IN  (IF EndsWith(src, ".py") THEN 1 ELSE 0)
      + (IF \E w \in _CODE_NAME_BOOST : Contains(Lower(src), w) THEN 2 ELSE 0)
      + (IF t \in _DOC_TYPES THEN 3 ELSE 0)

\* list.sort(key=_score_code_hit, reverse=True): stable, highest score first
RECURSIVE SortFrom(_, _)
SortFrom(hits, s) ==
    IF s < 0 THEN <<>>
    ELSE SelectSeq(hits, LAMBDA d : _score_code_hit(d) = s) \o SortFrom(hits, s - 1)

\* the hits left in the order the search returned them
SortByScore_unsorted(hits) == hits

SortByScore(hits) == SortFrom(hits, 6)

\* cap_for with the default cap for every source
cap_for_flat(src) == PER_FILE_CAP

cap_for(src) ==
    IF src = "README.md" THEN 1
    ELSE IF src = "requirements.txt" THEN 1
    ELSE IF EndsWith(src, ".py") THEN 3
    ELSE PER_FILE_CAP

\* parts, per_file, seen, total at the start of _retrieve
EmptyAcc == [parts |-> <<>>, per_file |-> <<>>, seen |-> {}, total |-> 0]

\* f"[the {src}:{loc}] {snippet}": the tag and the snippet that follows it
Entry(src, loc, content) ==
    [src |-> src, loc |-> loc,
     tag |-> "[the " \o src \o ":" \o loc \o "] ",
     snippet |-> [id |-> content.id, len |-> Min(content.len, SNIPPET_CHARS)]]

\* len(entry)
EntryLen(e) == Len(e.tag) + e.snippet.len

\* why try_add returns: "dup", "cap", "budget" or "added"
try_add_outcome(a, d) ==
    LET src == Basename(d.source)
        loc == d.lines
        entry == Entry(src, loc, d.content)
    IN  IF <<src, loc>> \in a.seen THEN "dup"
        ELSE IF Get(a.per_file, src, 0) >= cap_for(src) THEN "cap"
        ELSE IF a.total + EntryLen(entry) > MAX_CONTEXT_CHARS THEN "budget"
        ELSE "added"


\* try_add without the test of the seen set
try_add_unseen(a, d) ==
    LET src == Basename(d.source)
        loc == d.lines
        key == <<src, loc>>
        entry == Entry(src, loc, d.content)
    IN  IF Get(a.per_file, src, 0) >= cap_for(src) THEN a
        ELSE IF a.total + EntryLen(entry) > MAX_CONTEXT_CHARS THEN a
        ELSE [parts    |-> Append(a.parts, entry),
              per_file |-> (src :> (Get(a.per_file, src, 0) + 1)) @@ a.per_file,
              seen     |-> a.seen \cup {key},
              total    |-> a.total + EntryLen(entry)]

try_add(a, d) ==
    LET src == Basename(d.source)
        loc == d.lines
        key == <<src, loc>>
        entry == Entry(src, loc, d.content)
    IN  IF key \in a.seen \/ Get(a.per_file, src, 0) >= cap_for(src) THEN a
        ELSE IF a.total + EntryLen(entry) > MAX_CONTEXT_CHARS THEN a
        ELSE [parts    |-> Append(a.parts, entry),
              per_file |-> (src :> (Get(a.per_file, src, 0) + 1)) @@ a.per_file,
              seen     |-> a.seen \cup {key},
              total    |-> a.total + EntryLen(entry)]

\* for d in hits: try_add(d), from the i-th hit on
RECURSIVE AddFrom(_, _, _)
AddFrom(a, hits, i) ==
    IF i > Len(hits) THEN a
    ELSE CHOOSE r \in { AddFrom(b, hits, i + 1) : b \in { try_add(a, hits[i]) } } : TRUE

AddAll(a, hits) == AddFrom(a, hits, 1)

\* "\n\n".join(parts): the entries with the separator between neighbours;
\* the separator is a piece of literal text with no snippet
SEP == [src |-> "", loc |-> "", tag |-> "\n\n", snippet |-> [id |-> 0, len |-> 0]]

RECURSIVE JoinFrom(_, _)
JoinFrom(parts, i) ==
    IF i > Len(parts) THEN <<>>
    ELSE IF i = Len(parts) THEN <<parts[i]>>
    ELSE <<parts[i], SEP>> \o JoinFrom(parts, i + 1)

Join(parts) == JoinFrom(parts, 1)

\* len() of a joined string
RECURSIVE LenFrom(_, _)
LenFrom(ctx, i) ==
    IF i > Len(ctx) THEN 0 ELSE EntryLen(ctx[i]) + LenFrom(ctx, i + 1)

JoinedLen(ctx) == LenFrom(ctx, 1)

\* What an index gives one _retrieve call: load_local raises or not, the
\* search raises or not, and the hits it returns
IndexResult(load_ok, search_ok, hits) ==
    [load_ok |-> load_ok, search_ok |-> search_ok, hits |-> hits]

\* an index as a run meets it: absent or unloadable, loadable with a search
\* that raises, searchable without a hit, searchable with hits
IndexStatus(res) ==
    IF ~res.load_ok THEN "load_failed"
    ELSE IF ~res.search_ok THEN "search_failed"
    ELSE IF res.hits = <<>> THEN "no_hits"
    ELSE "hits"

IndexStatuses == {"load_failed", "search_failed", "no_hits", "hits"}

\* _retrieve for which a context without an entry is an error
_retrieve_nonempty(spec, code_res, text_res) ==
    IF ~text_res.load_ok THEN [raised |-> TRUE, ctx |-> <<>>]
    ELSE
      LET after_code ==
            IF spec.route = "both" /\ code_res.load_ok /\ code_res.search_ok
            THEN AddAll(EmptyAcc, SortByScore(code_res.hits))
            ELSE EmptyAcc
      IN  IF ~text_res.search_ok \/ AddAll(after_code, text_res.hits).parts = <<>>
          THEN [raised |-> TRUE, ctx |-> <<>>]
          ELSE [raised |-> FALSE,
                ctx |-> Join(AddAll(after_code, text_res.hits).parts)]

\* _retrieve(spec): the returned string, or the exception that escapes
_retrieve(spec, code_res, text_res) ==
    IF ~text_res.load_ok THEN [raised |-> TRUE, ctx |-> <<>>]
    ELSE
      LET after_code ==
            IF spec.route = "both" /\ code_res.load_ok /\ code_res.search_ok
            THEN AddAll(EmptyAcc, SortByScore(code_res.hits))
            ELSE EmptyAcc
      IN  IF ~text_res.search_ok THEN [raised |-> TRUE, ctx |-> <<>>]
          ELSE [raised |-> FALSE,
                ctx |-> Join(AddAll(after_code, text_res.hits).parts)]

(***************************************************************************)
(* Texts of the grading service and json.loads                             *)
(* A text is modelled by what json.loads makes of it: kind "text" does not *)
(* parse; "array", "null", "number", "string" parse to a value that is not *)
(* an object; "object" parses to a dict whose keys are "absent" or carry a  *)
(* value.  Scores are hundredths (0.75 is 75).                             *)
(***************************************************************************)
JsonText(kind, text, factual, cites_ok, hallucinated, score_kind, score, notes) ==
    [kind |-> kind, text |-> text, factual |-> factual, cites_ok |-> cites_ok,
     hallucinated |-> hallucinated, score_kind |-> score_kind, score |-> score,
     notes |-> notes]

NonObject(kind, text) ==
    JsonText(kind, text, "absent", "absent", "absent", "absent", 0, "absent")

Verdict(factual, cites_ok, hallucinated, score_kind, score, notes) ==
    JsonText("object", "", factual, cites_ok, hallucinated, score_kind, score, notes)

\* "{}"
EMPTY_OBJECT == Verdict("absent", "absent", "absent", "absent", 0, "absent")

\* the verdict n_judge substitutes (graph.py:281-283)
FAILING_VERDICT == Verdict("false", "false", "true", "num", 0, "str")

\* json.loads raises on the text
JsonRaises(t) == t.kind = "text"

\* x or "{}" for a text x
OrEmptyObject(t) == IF t.kind = "text" /\ t.text = "" THEN EMPTY_OBJECT ELSE t

\* the empty text, state.get("_judge", "")
EMPTY_TEXT == NonObject("text", "")

(***************************************************************************)
(* The nodes and routing functions of the graph (graph.py:175-371)         *)
(* A node is an operator from the state (and what the external service     *)
(* returned) to [raised, upd]: the exception that escapes, or the partial  *)
(* update it returns.                                                      *)
(***************************************************************************)
Returns(upd) == [raised |-> "none", upd |-> upd]
Raises(e) == [raised |-> e, upd |-> <<>>]

\* Python truthiness of state.get(k) for a string value
Truthy(st, k) == k \in DOMAIN st /\ st[k] # ""

n_retrieve(st, code_res, text_res) ==
    LET r == _retrieve(st["spec"], code_res, text_res)
    IN  IF r.raised THEN Raises("RetrievalError") ELSE Returns("context" :> r.ctx)

n_write(st, md) == Returns("draft" :> Strip(md))


\* route_after_write without the .lower()
route_after_write_exact(st) ==
    LET mode == IF Truthy(st, "review_mode") THEN st["review_mode"] ELSE "llm"
    IN  IF mode = "none" THEN "save" ELSE "judge"

route_after_write(st) ==
    LET mode == Lower(IF Truthy(st, "review_mode") THEN st["review_mode"] ELSE "llm")
    IN  IF mode = "none" THEN "save" ELSE "judge"


\* n_judge without the substitution: the text is kept as it came
n_judge_out_keep(out) == out

\* the text n_judge keeps for what the grading service returned
n_judge_out(out) == IF JsonRaises(out) THEN FAILING_VERDICT ELSE out

n_judge(st, out) == Returns("_judge" :> n_judge_out(out))


\* n_revise that also returns a context of its own
n_revise_recontext(st, fixed) ==
    Returns(("draft" :> Strip(fixed)) @@ ("retries" :> (Get(st, "retries", 0) + 1))
            @@ ("context" :> <<>>))

n_revise(st, fixed) ==
    LET data == IF JsonRaises(OrEmptyObject(Get(st, "_judge", EMPTY_TEXT)))
                THEN EMPTY_OBJECT
                ELSE OrEmptyObject(Get(st, "_judge", EMPTY_TEXT))
        upd == ("draft" :> Strip(fixed)) @@ ("retries" :> (Get(st, "retries", 0) + 1))
    IN  IF Truthy(st, "_human_notes") THEN Returns(upd)
        ELSE IF data.kind # "object" THEN Raises("AttributeError")
        ELSE IF data.notes = "null" THEN Raises("TypeError")
        ELSE Returns(upd)

\* float(data.get("score", 0)): the number, or the exception
ScoreRaises(data) ==
    CASE data.score_kind = "str"  -> "ValueError"
      [] data.score_kind = "null" -> "TypeError"
      [] OTHER -> "none"

ScoreOf(data) == IF data.score_kind = "num" THEN data.score ELSE 0


\* decide_pass_or_revise with the pass mark excluded (score > 0.75)
decide_pass_or_revise_strict(st) ==
    LET text == OrEmptyObject(Get(st, "_judge", EMPTY_TEXT))
        data == text
        bad  == data.factual = "false" \/ data.hallucinated = "true"
                \/ data.cites_ok = "false"
    IN  IF Truthy(st, "_human_notes") THEN [raised |-> "none", next |-> "revise"]
        ELSE IF JsonRaises(text) THEN [raised |-> "none", next |-> "revise"]
        ELSE IF data.kind # "object" THEN [raised |-> "AttributeError", next |-> "raised"]
        ELSE IF ScoreRaises(data) # "none" THEN [raised |-> ScoreRaises(data), next |-> "raised"]
        ELSE IF ~bad /\ ScoreOf(data) > PASS_SCORE THEN [raised |-> "none", next |-> "save"]
        ELSE IF Get(st, "retries", 0) < Get(st, "max_retries", DEFAULT_MAX_RETRIES)
             THEN [raised |-> "none", next |-> "revise"]
        ELSE [raised |-> "none", next |-> "save"]

decide_pass_or_revise(st) ==
    LET text == OrEmptyObject(Get(st, "_judge", EMPTY_TEXT))
        data == text
        bad  == data.factual = "false" \/ data.hallucinated = "true"
                \/ data.cites_ok = "false"
    IN  IF Truthy(st, "_human_notes") THEN [raised |-> "none", next |-> "revise"]
        ELSE IF JsonRaises(text) THEN [raised |-> "none", next |-> "revise"]
        ELSE IF data.kind # "object" THEN [raised |-> "AttributeError", next |-> "raised"]
        ELSE IF ScoreRaises(data) # "none" THEN [raised |-> ScoreRaises(data), next |-> "raised"]
        ELSE IF ~bad /\ ScoreOf(data) >= PASS_SCORE THEN [raised |-> "none", next |-> "save"]
        ELSE IF Get(st, "retries", 0) < Get(st, "max_retries", DEFAULT_MAX_RETRIES)
             THEN [raised |-> "none", next |-> "revise"]
        ELSE [raised |-> "none", next |-> "save"]

\* spec.name.lower().replace("&","and").replace(" ", "_") + ".md" under docs/
SavePath(name) == "docs/" \o Replace(Replace(Lower(name), "&", "and"), " ", "_") \o ".md"

\* the text n_save writes: heading, blank line, draft, newline
SaveText(name, draft) == "# " \o name \o "\n\n" \o draft \o "\n"

n_save(st) == Returns("out_path" :> SavePath(st["spec"].name))

\* build_graph: the entry point and the unconditional edges
EntryPoint == "retrieve"

EdgeFrom(node) ==
    CASE node = "retrieve" -> "write"
      [] node = "revise"   -> "judge"
      [] node = "save"     -> "END"

CONTEXT_DUMP == "debug/context.txt"
JudgeDump(name) == "debug/" \o name \o "_judge.json"

(***************************************************************************)
(* Inputs: the indexes, the section specs, the services' answers           *)
(***************************************************************************)
\* what the CODE index holds, in the order a search ranks it
CodeCorpus == <<
    Hit("repo/app/service.py", "functiondef",           "10-48",   1, 900),
    Hit("repo/app/service.py", "functiondef_docstring", "10-48",   2, 643),
    Hit("repo/app/service.py", "classdef",              "50-90",   3, 643),
    Hit("repo/app/service.py", "functiondef",           "92-99",   4, 643),
    Hit("repo/app/service.py", "functiondef",           "101-140", 5, 641),
    Hit("repo/main.py",        "module_docstring",      "1-60",    6, 647),
    Hit("repo/main.py",        "functiondef",           "9-60",    7, 647),
    Hit("repo/nb/demo.ipynb",  "code_cell",             "cell_0",  8, 642) >>

\* what the TEXT index holds, in the order a search ranks it
TextCorpus == <<
    Hit("repo/README.md",          "readme", "1-80",  9,  3000),
    Hit("repo/docs/README.md",     "md",     "1-20",  10, 645),
    Hit("repo/requirements.txt",   "txt",    "1-9",   11, 60),
    Hit("repo/docs/guide.md",      "md",     "1-120", 12, 645),
    Hit("repo/docs/api/guide.md",  "md",     "1-44",  13, 646),
    Hit("repo/docs/requirements.txt", "txt", "1-4",   14, 61),
    Hit("repo/guide.md",           "md",     "1-7",   15, 646) >>

\* the elements of seq whose index is in S, in order
RECURSIVE Pick(_, _, _)
Pick(seq, S, i) ==
    IF i > Len(seq) THEN <<>>
    ELSE (IF i \in S THEN <<seq[i]>> ELSE <<>>) \o Pick(seq, S, i + 1)

\* every outcome of loading and searching an index; the hit lists are those
\* a search with top-k = k can return
IndexResults(corpus, k) ==
    { IndexResult(FALSE, FALSE, <<>>), IndexResult(TRUE, FALSE, <<>>) }
    \cup { IndexResult(TRUE, TRUE, Pick(corpus, S, 1)) :
             S \in { T \in SUBSET (1..Len(corpus)) : Cardinality(T) <= k } }

\* the outcomes the section runs see: hits among the MaxRunHits best ranked
RunResults(corpus, k) ==
    IndexResults(SubSeq(corpus, 1, Min(MaxRunHits, Len(corpus))), k)

SectionSpec(name, route) ==
    [name |-> name, query |-> "q", route |-> route, k_text |-> 5, k_code |-> 15]

Specs == { SectionSpec("API Key", "both"), SectionSpec("Objective & Scope", "text") }

\* what the generation service returns
LlmTexts == { "draft one", " draft one\n", "draft two" }

\* what the grading service returns
GraderOutputs == {
    NonObject("text", "not json"),
    NonObject("text", ""),
    NonObject("array", "[]"),
    NonObject("null", "null"),
    Verdict("true", "true", "false", "num", 90, "str"),
    Verdict("false", "absent", "absent", "num", 90, "absent"),
    Verdict("true", "true", "false", "num", 74, "str"),
    Verdict("true", "true", "false", "num", 75, "str"),
    Verdict("true", "true", "true", "num", 100, "str"),
    Verdict("true", "true", "false", "str", 0, "str"),
    Verdict("true", "true", "false", "null", 0, "str"),
    Verdict("false", "false", "true", "num", 0, "null"),
    EMPTY_OBJECT }

\* the optional keys a caller passes to invoke
OptionalKeys(key, values) == { <<>> } \cup { key :> v : v \in values }

RetriesKeys ==
    { r @@ m : r \in OptionalKeys("retries", 0..DEFAULT_MAX_RETRIES),
               m \in OptionalKeys("max_retries", 0..MaxMaxRetries) }

\* the states a section run starts from: 0 <= retries <= max_retries
InitialStates ==
    { ("spec" :> sp) @@ mode @@ notes @@ rm :
        sp \in Specs,
        mode \in OptionalKeys("review_mode", {"none", "NONE", "llm", ""}),
        notes \in OptionalKeys("_human_notes", {"", "tighten the intro"}),
        rm \in { x \in RetriesKeys :
                   Get(x, "retries", 0) <= Get(x, "max_retries", DEFAULT_MAX_RETRIES) } }

\* no extraction is running
IdleExtract ==
    /\ repo = <<>> /\ x_pc = "idle" /\ x_i = 0 /\ chunks = <<>> /\ cands = <<>>

\* no index build is running
IdleBuild ==
    /\ b_args = [chunks |-> <<>>, min_chars |-> 0, max_chars |-> 0]
    /\ b_pc = "idle"
    /\ text_docs = <<>> /\ code_docs = <<>>
    /\ text_index = <<>> /\ code_index = <<>>
    /\ b_ret = [text_count |-> 0, code_count |-> 0]
    /\ b_round = 0
    /\ prev_ids = [text |-> {}, code |-> {}]

\* no concurrent instances are running
IdleConc == inst = <<>> /\ cfiles = <<>> /\ cwrites = <<>>

(***************************************************************************)
(* A section run: app.invoke(initial state)                                *)
(***************************************************************************)
IdleRetrieve ==
    /\ r_pc = "idle" /\ r_spec = SectionSpec("idle", "text") /\ c_hits = <<>> /\ t_hits = <<>>
    /\ r_i = 0 /\ acc = EmptyAcc /\ r_last = "none"
    /\ idx = [code |-> "idle", text |-> "idle"]

Init ==
    /\ state \in InitialStates
    /\ pc = EntryPoint
    /\ err = "none"
    /\ files = <<>>
    /\ last_node = "start"
    /\ grader_out = EMPTY_TEXT
    /\ write_draft = ""
    /\ nRetrieve = 0 /\ nWrite = 0 /\ nJudge = 0 /\ nRevise = 0
    /\ IdleRetrieve /\ IdleExtract /\ IdleBuild /\ IdleConc

\* an exception leaves invoke: the run ends without reaching a further node
Raise(e) == /\ pc' = "raised" /\ err' = e

RunRetrieve ==
    /\ pc = "retrieve"
    /\ \E code_res \in RunResults(CodeCorpus, state["spec"].k_code),
          text_res \in RunResults(TextCorpus, state["spec"].k_text) :
         LET r == n_retrieve(state, code_res, text_res) IN
           /\ idx' = [code |-> IndexStatus(code_res), text |-> IndexStatus(text_res)]
           /\ IF r.raised # "none"
              THEN /\ Raise(r.raised)
                   /\ UNCHANGED <<state, files>>
              ELSE /\ state' = Merge(state, r.upd)
                   /\ files' = (CONTEXT_DUMP :> r.upd["context"]) @@ files
                   /\ pc' = EdgeFrom("retrieve")
                   /\ err' = err
    /\ last_node' = "retrieve"
    /\ nRetrieve' = nRetrieve + 1
    /\ UNCHANGED <<grader_out, write_draft, nWrite, nJudge, nRevise>>
    /\ UNCHANGED rvars
    /\ UNCHANGED <<xvars, bvars, cvars>>

RunWrite ==
    /\ pc = "write"
    /\ \E md \in LlmTexts :
         LET r == n_write(state, md) IN
           /\ state' = Merge(state, r.upd)
           /\ write_draft' = r.upd["draft"]
           /\ pc' = route_after_write(Merge(state, r.upd))
    /\ last_node' = "write"
    /\ nWrite' = nWrite + 1
    /\ UNCHANGED <<err, files, grader_out, nRetrieve, nJudge, nRevise>>
    /\ UNCHANGED <<rvars, idx>>
    /\ UNCHANGED <<xvars, bvars, cvars>>

RunJudge ==
    /\ pc = "judge"
    /\ \E out \in GraderOutputs :
         LET r == n_judge(state, out)
             d == decide_pass_or_revise(Merge(state, r.upd))
         IN  /\ grader_out' = out
             /\ state' = Merge(state, r.upd)
             /\ files' = (JudgeDump(state["spec"].name) :> r.upd["_judge"]) @@ files
             /\ pc' = d.next
             /\ err' = d.raised
    /\ last_node' = "judge"
    /\ nJudge' = nJudge + 1
    /\ UNCHANGED <<write_draft, nRetrieve, nWrite, nRevise>>
    /\ UNCHANGED <<rvars, idx>>
    /\ UNCHANGED <<xvars, bvars, cvars>>

RunRevise ==
    /\ pc = "revise"
    /\ Get(state, "retries", 0) < RetriesCap
    /\ \E fixed \in LlmTexts :
         LET r == n_revise(state, fixed) IN
           IF r.raised # "none"
           THEN /\ Raise(r.raised)
                /\ UNCHANGED state
           ELSE /\ state' = Merge(state, r.upd)
                /\ pc' = EdgeFrom("revise")
                /\ err' = err
    /\ last_node' = "revise"
    /\ nRevise' = nRevise + 1
    /\ UNCHANGED <<files, grader_out, write_draft, nRetrieve, nWrite, nJudge>>
    /\ UNCHANGED <<rvars, idx>>
    /\ UNCHANGED <<xvars, bvars, cvars>>

RunSave ==
    /\ pc = "save"
    /\ LET r == n_save(state) IN
         /\ state' = Merge(state, r.upd)
         /\ files' = (r.upd["out_path"] :> SaveText(state["spec"].name, state["draft"])) @@ files
    /\ pc' = EdgeFrom("save")
    /\ last_node' = "save"
    /\ UNCHANGED <<err, grader_out, write_draft, nRetrieve, nWrite, nJudge, nRevise>>
    /\ UNCHANGED <<rvars, idx>>
    /\ UNCHANGED <<xvars, bvars, cvars>>

Next == RunRetrieve \/ RunWrite \/ RunJudge \/ RunRevise \/ RunSave

Spec == Init /\ [][Next]_vars

\* every node that can run does run: the graph runtime never idles
FairSpec == Spec /\ WF_vars(Next)

(***************************************************************************)
(* decide_pass_or_revise on its own: every verdict, retries, max_retries   *)
(***************************************************************************)
Tri == {"absent", "true", "false"}

Scores == { <<"absent", 0>>, <<"num", 0>>, <<"num", 74>>, <<"num", 75>>,
            <<"num", 90>>, <<"num", 100>>, <<"str", 0>>, <<"null", 0>> }

JudgeTexts ==
    { Verdict(f, c, h, sc[1], sc[2], "str") : f \in Tri, c \in Tri, h \in Tri, sc \in Scores }
    \cup { NonObject("text", "not json"), NonObject("array", "[]"),
           NonObject("null", "null"), NonObject("number", "3"),
           NonObject("string", "\"ok\"") }

\* the states the routing function is applied to
RouteStates ==
    { ("spec" :> SectionSpec("API Key", "both")) @@ ("context" :> <<>>)
        @@ ("draft" :> d) @@ ("_judge" :> j) @@ notes @@ r @@ m :
        d \in {"draft one", "draft two"},
        j \in JudgeTexts,
        notes \in OptionalKeys("_human_notes", {"", "tighten the intro"}),
        r \in OptionalKeys("retries", 0..(DEFAULT_MAX_RETRIES + 1)),
        m \in OptionalKeys("max_retries", 0..MaxMaxRetries) }

InitRoute ==
    /\ state \in RouteStates
    /\ pc = "judge"
    /\ err = "none"
    /\ files = <<>>
    /\ last_node = "start"
    /\ grader_out = EMPTY_TEXT
    /\ write_draft = ""
    /\ nRetrieve = 0 /\ nWrite = 0 /\ nJudge = 0 /\ nRevise = 0
    /\ IdleRetrieve /\ IdleExtract /\ IdleBuild /\ IdleConc

\* the conditional edge after "judge" is evaluated on the state as it is
ApplyRoute ==
    /\ pc = "judge"
    /\ LET d == decide_pass_or_revise(state) IN
         /\ pc' = d.next
         /\ err' = d.raised
    /\ last_node' = "judge"
    /\ UNCHANGED <<state, files, grader_out, write_draft,
                   nRetrieve, nWrite, nJudge, nRevise>>
    /\ UNCHANGED <<rvars, idx>>
    /\ UNCHANGED <<xvars, bvars, cvars>>

NextRoute == ApplyRoute

SpecRoute == InitRoute /\ [][NextRoute]_vars

(***************************************************************************)
(* _retrieve step by step: one try_add at a time (graph.py:153-173)        *)
(***************************************************************************)
IdleRun ==
    /\ state = ("spec" :> SectionSpec("idle", "text"))
    /\ pc = "idle"
    /\ err = "none"
    /\ files = <<>>
    /\ last_node = "start"
    /\ grader_out = EMPTY_TEXT
    /\ write_draft = ""
    /\ nRetrieve = 0 /\ nWrite = 0 /\ nJudge = 0 /\ nRevise = 0

InitRetrieve ==
    /\ r_spec \in Specs
    /\ r_pc = "load_text"
    /\ c_hits = <<>>
    /\ t_hits = <<>>
    /\ r_i = 1
    /\ acc = EmptyAcc
    /\ r_last = "none"
    /\ idx \in [code : IndexStatuses, text : IndexStatuses]
    /\ IdleRun /\ IdleExtract /\ IdleBuild /\ IdleConc

\* text_vs = FAISS.load_local(...): not guarded, a failure leaves _retrieve
LoadText ==
    /\ r_pc = "load_text"
    /\ \E ok \in { idx.text # "load_failed" } :
         r_pc' = IF ~ok THEN "raised"
                 ELSE IF r_spec.route = "both" THEN "search_code" ELSE "search_text"
    /\ UNCHANGED <<r_spec, c_hits, t_hits, r_i, acc, r_last, idx>>
    /\ UNCHANGED wfvars
    /\ UNCHANGED <<xvars, bvars, cvars>>

\* load and search of the CODE index outside any try/except
SearchCode_unguarded ==
    /\ r_pc = "search_code"
    /\ \E res \in { x \in IndexResults(CodeCorpus, r_spec.k_code) :
                        IndexStatus(x) = idx.code } :
         IF res.load_ok /\ res.search_ok /\ res.hits # <<>>
         THEN /\ c_hits' = SortByScore(res.hits)
              /\ r_pc' = "add_code"
         ELSE /\ c_hits' = <<>>
              /\ r_pc' = IF res.load_ok /\ res.search_ok THEN "search_text" ELSE "raised"
    /\ r_i' = 1
    /\ UNCHANGED <<r_spec, t_hits, acc, r_last, idx>>
    /\ UNCHANGED wfvars
    /\ UNCHANGED <<xvars, bvars, cvars>>

\* load and search of the CODE index and the sort, inside try/except
SearchCode ==
    /\ r_pc = "search_code"
    /\ \E res \in { x \in IndexResults(CodeCorpus, r_spec.k_code) :
                        IndexStatus(x) = idx.code } :
         IF res.load_ok /\ res.search_ok /\ res.hits # <<>>
         THEN /\ c_hits' = SortByScore(res.hits)
              /\ r_pc' = "add_code"
         ELSE /\ c_hits' = <<>>
              /\ r_pc' = "search_text"
    /\ r_i' = 1
    /\ UNCHANGED <<r_spec, t_hits, acc, r_last, idx>>
    /\ UNCHANGED wfvars
    /\ UNCHANGED <<xvars, bvars, cvars>>

\* one pass of "for d in c_hits: try_add(d)"
AddCode ==
    /\ r_pc = "add_code"
    /\ r_i <= Len(c_hits)
    /\ acc' = try_add(acc, c_hits[r_i])
    /\ r_last' = try_add_outcome(acc, c_hits[r_i])
    /\ r_i' = IF r_i = Len(c_hits) THEN 1 ELSE r_i + 1
    /\ r_pc' = IF r_i = Len(c_hits) THEN "search_text" ELSE "add_code"
    /\ UNCHANGED <<r_spec, c_hits, t_hits, idx>>
    /\ UNCHANGED wfvars
    /\ UNCHANGED <<xvars, bvars, cvars>>

\* the search of the TEXT index: not guarded
SearchText ==
    /\ r_pc = "search_text"
    /\ \E res \in { x \in IndexResults(TextCorpus, r_spec.k_text) :
                        x.load_ok /\ IndexStatus(x) = idx.text } :
         IF ~res.search_ok
         THEN /\ r_pc' = "raised"
              /\ t_hits' = <<>>
         ELSE /\ t_hits' = res.hits
              /\ r_pc' = IF res.hits = <<>> THEN "done" ELSE "add_text"
    /\ r_i' = 1
    /\ UNCHANGED <<r_spec, c_hits, acc, r_last, idx>>
    /\ UNCHANGED wfvars
    /\ UNCHANGED <<xvars, bvars, cvars>>

\* the loop over t_hits left at the first hit that is not inserted
AddText_stop ==
    /\ r_pc = "add_text"
    /\ r_i <= Len(t_hits)
    /\ acc' = try_add(acc, t_hits[r_i])
    /\ r_last' = try_add_outcome(acc, t_hits[r_i])
    /\ r_i' = r_i + 1
    /\ r_pc' = IF r_i = Len(t_hits) \/ try_add(acc, t_hits[r_i]) = acc
              THEN "done" ELSE "add_text"
    /\ UNCHANGED <<r_spec, c_hits, t_hits, idx>>
    /\ UNCHANGED wfvars
    /\ UNCHANGED <<xvars, bvars, cvars>>

\* one pass of "for d in t_hits: try_add(d)"; after the last one _retrieve
\* returns "\n\n".join(parts)
AddText ==
    /\ r_pc = "add_text"
    /\ r_i <= Len(t_hits)
    /\ acc' = try_add(acc, t_hits[r_i])
    /\ r_last' = try_add_outcome(acc, t_hits[r_i])
    /\ r_i' = r_i + 1
    /\ r_pc' = IF r_i = Len(t_hits) THEN "done" ELSE "add_text"
    /\ UNCHANGED <<r_spec, c_hits, t_hits, idx>>
    /\ UNCHANGED wfvars
    /\ UNCHANGED <<xvars, bvars, cvars>>

NextRetrieve == LoadText \/ SearchCode \/ AddCode \/ SearchText \/ AddText

SpecRetrieve == InitRetrieve /\ [][NextRetrieve]_vars

\* the string _retrieve returns once it is done
Returned == Join(acc.parts)

(***************************************************************************)
(* The chunk extractor: is_low_value_file and extract_all_chunks           *)
(* (chunking.py).  A text (a file's content, a docstring, a source         *)
(* segment, a notebook cell) is modelled by an id that tells texts apart,  *)
(* its length, the number of characters str.strip() takes off its ends,    *)
(* the newlines it keeps after strip() and the newlines strip() takes off. *)
(***************************************************************************)
Text(id, len, pad, nl, pad_nl) ==
    [id |-> id, len |-> len, pad |-> pad, nl |-> nl, pad_nl |-> pad_nl]

\* None or the empty string: falsy
NoText == Text(0, 0, 0, 0, 0)

\* str.strip()
StripText(t) == [t EXCEPT !.len = t.len - t.pad, !.pad = 0, !.pad_nl = 0]

\* f"1-{content.count(chr(10)) + 1}"
Lines1N(t) == "1-" \o ToString(t.nl + t.pad_nl + 1)

\* Document(page_content=..., metadata={...}): the metadata dict keeps the
\* order in which its keys were written
Document(page_content, source, file_ext, type, name, lines) ==
    [page_content |-> page_content,
     metadata |-> << <<"source", source>>, <<"file_ext", file_ext>>,
                     <<"type", type>>, <<"name", name>>, <<"lines", lines>> >>]

\* metadata.get(key, dflt)
MetaGet(meta, key, dflt) ==
    IF \E i \in 1..Len(meta) : meta[i][1] = key
    THEN meta[CHOOSE i \in 1..Len(meta) : meta[i][1] = key][2]
    ELSE dflt

\* Path(p).suffix: from the last dot of the name on, empty when the name has
\* no dot or only a leading or a trailing one
Suffix(p) ==
    LET name == Basename(p)
        dots == { i \in 1..Len(name) : SubSeq(name, i, i) = "." }
        last == CHOOSE i \in dots : \A j \in dots : i >= j
    IN  IF dots = {} THEN ""
        ELSE IF last = 1 \/ last = Len(name) THEN ""
        ELSE SubSeq(name, last, Len(name))

\* set(Path(p).parts)
PathParts(p) ==
    LET n == Len(p)
        IsSlash(i) == SubSeq(p, i, i) = "/"
    IN  { SubSeq(p, ij[1], ij[2]) :
            ij \in { x \in (1..n) \X (1..n) :
                       /\ x[1] <= x[2]
                       /\ (x[1] = 1 \/ IsSlash(x[1] - 1))
                       /\ (x[2] = n \/ IsSlash(x[2] + 1))
                       /\ \A k \in x[1]..x[2] : ~IsSlash(k) } }

\* str.lstrip(".")
LStripDots(s) ==
    LET keep == { i \in 1..Len(s) : SubSeq(s, i, i) # "." }
    IN  IF keep = {} THEN ""
        ELSE SubSeq(s, CHOOSE i \in keep : \A j \in keep : i <= j, Len(s))

low_value_exts == {
    ".css", ".min.js", ".json", ".svg", ".csv", ".xlsx", ".xls",
    ".log", ".lock", ".pyc", ".pyo", ".pyd", ".class", ".jar", ".war",
    ".o", ".obj", ".dll", ".exe", ".so", ".a", ".db", ".sqlite", ".sqlite3",
    ".bak", ".tmp", ".ico", ".icns", ".pdf", ".docx", ".pptx",
    ".7z", ".zip", ".tar", ".gz", ".rar", ".iml" }

low_value_files == {
    "readme.md", "license", ".gitignore", ".gitattributes", "post-update.sample",
    "fsmonitor-watchman.sample", "pre-commit", "pre-push", "commit-msg",
    "tags", "head", "config", "description", "index", ".editorconfig",
    ".prettierrc", ".eslintrc", ".gitmodules", ".mailmap", ".clang-format",
    "pipfile.lock", "yarn.lock", "package-lock.json", ".env", ".env.example",
    ".npmrc", "update.sample" }

low_value_dirs == { ".git", ".vscode", ".idea", "__pycache__",
                    "node_modules", "dist", "build", ".pytest_cache" }


is_low_value_file(filepath) ==
    \/ Lower(Suffix(filepath)) \in low_value_exts
    \/ Lower(Basename(filepath)) \in low_value_files
    \/ \E d \in low_value_dirs : d \in PathParts(filepath)
    \/ Contains(Lower(filepath), "mock")

\* the length test without its lower end
InBounds_nonempty(n) == 0 < n /\ n < 5000

\* the length test every pass applies: 50 < len(content) < 5000
InBounds(n) == 50 < n /\ n < 5000

\* A file of the repository: read_text (or nbformat.read) raises on it or
\* not, ast.parse raises on it or not, its text, and for a Python file the
\* module docstring and the statements of tree.body, for a notebook its cells
SourceFile(path, readable, text) ==
    [path |-> path, readable |-> readable, parses |-> TRUE, text |-> text,
     mod_doc |-> NoText, body |-> <<>>, cells |-> <<>>]

PyFile(path, readable, parses, text, mod_doc, body) ==
    [path |-> path, readable |-> readable, parses |-> parses, text |-> text,
     mod_doc |-> mod_doc, body |-> body, cells |-> <<>>]

Notebook(path, readable, cells) ==
    [path |-> path, readable |-> readable, parses |-> TRUE, text |-> NoText,
     mod_doc |-> NoText, body |-> <<>>, cells |-> cells]

\* a statement of tree.body: its class, name, lines, source segment, docstring
Node(kind, name, lineno, end_lineno, seg, doc) ==
    [kind |-> kind, name |-> name, lineno |-> lineno, end_lineno |-> end_lineno,
     seg |-> seg, doc |-> doc]

Cell(cell_type, source) == [cell_type |-> cell_type, source |-> source]

\* the repository root
REPO == "repo"

READMES == <<"README.md", "README.rst", "README.txt">>

\* the file of the listing at a path
FileAt(rp, path) == rp[CHOOSE i \in 1..Len(rp) : rp[i].path = path]

Exists(rp, path) == \E i \in 1..Len(rp) : rp[i].path = path

\* 1. README files: the candidates of the pass, or the exception of a
\* read_text that nothing catches
readme_pass(rp) ==
    LET found == { i \in 1..Len(READMES) : Exists(rp, REPO \o "/" \o READMES[i]) }
        first == CHOOSE i \in found : \A j \in found : i <= j
        f == FileAt(rp, REPO \o "/" \o READMES[first])
        content == StripText(f.text)
    IN  IF found = {} THEN [raised |-> FALSE, cands |-> <<>>]
        ELSE IF ~f.readable THEN [raised |-> TRUE, cands |-> <<>>]
        ELSE [raised |-> FALSE,
              cands |-> << Document(content, f.path, "text", "readme",
                                    READMES[first], Lines1N(content)) >>]

\* chain(rglob("*.md"), rglob("*.rst"), rglob("*.txt"))
TextList(rp) ==
    SelectSeq(rp, LAMBDA f : EndsWith(Basename(f.path), ".md"))
    \o SelectSeq(rp, LAMBDA f : EndsWith(Basename(f.path), ".rst"))
    \o SelectSeq(rp, LAMBDA f : EndsWith(Basename(f.path), ".txt"))


\* 2. the body of the loop over the other text files: the candidates of a file
text_file(f) ==
    LET content == StripText(f.text)
        ext == IF LStripDots(Lower(Suffix(f.path))) = "" THEN "txt"
               ELSE LStripDots(Lower(Suffix(f.path)))
    IN  IF Lower(Basename(f.path)) = "readme.md" THEN <<>>
        ELSE IF ~f.readable THEN <<>>
        ELSE << Document(content, f.path, ext, ext, Basename(f.path), Lines1N(content)) >>

\* rglob("*.*"): the paths whose name has a dot
CodeList(rp) == SelectSeq(rp, LAMBDA f : Contains(Basename(f.path), "."))

NodeLines(node) == ToString(node.lineno) \o "-" \o ToString(node.end_lineno)

\* the candidates of one statement of tree.body: the source segment, then the
\* docstring
NodeCands(f, node) ==
    IF node.kind \notin {"FunctionDef", "ClassDef"} THEN <<>>
    ELSE (IF node.seg.len > 0
          THEN << Document(node.seg, f.path, "code", Lower(node.kind),
                           node.name, NodeLines(node)) >>
          ELSE <<>>)
      \o (IF node.doc.len > 0
          THEN << Document(node.doc, f.path, "code", Lower(node.kind) \o "_docstring",
                           node.name, NodeLines(node)) >>
          ELSE <<>>)

RECURSIVE NodesFrom(_, _)
NodesFrom(f, i) ==
    IF i > Len(f.body) THEN <<>> ELSE NodeCands(f, f.body[i]) \o NodesFrom(f, i + 1)

\* the candidate of cell i (counted from 0) of a notebook
CellCands(f, i) ==
    LET cell == f.cells[i + 1]
        content == StripText(cell.source)
    IN  IF cell.cell_type \notin {"markdown", "code"} THEN <<>>
        ELSE << Document(content, f.path, "code", cell.cell_type \o "_cell",
                         Basename(f.path) \o " - cell " \o ToString(i),
                         "cell_" \o ToString(i)) >>

RECURSIVE CellsFrom(_, _)
CellsFrom(f, i) ==
    IF i >= Len(f.cells) THEN <<>> ELSE CellCands(f, i) \o CellsFrom(f, i + 1)

\* 3. the body of the loop over code and other files: the candidates of a
\* file; an exception inside the try leaves the file without any
code_file(f) ==
    LET suffix == Lower(Suffix(f.path)) IN
    IF is_low_value_file(f.path) THEN <<>>
    ELSE IF suffix = ".py"
         THEN IF ~f.readable \/ ~f.parses THEN <<>>
              ELSE (IF f.mod_doc.len > 0
                    THEN << Document(f.mod_doc, f.path, "code", "module_docstring",
                                     Basename(f.path), Lines1N(f.text)) >>
                    ELSE <<>>)
                   \o NodesFrom(f, 1)
    ELSE IF suffix = ".ipynb"
         THEN IF ~f.readable THEN <<>> ELSE CellsFrom(f, 0)
    ELSE IF ~f.readable THEN <<>>
         ELSE << Document(f.text, f.path, "code", suffix, Basename(f.path),
                          Lines1N(f.text)) >>

\* the candidates that pass the length test are appended to chunks
Emit(cs) == SelectSeq(cs, LAMBDA d : InBounds(d.page_content.len))

(***************************************************************************)
(* Repositories                                                            *)
(***************************************************************************)
\* the files a repository is made of, in the order rglob lists them
FileUniverse == <<
    SourceFile("repo/README.md",  TRUE,  Text(1, 202, 2, 7, 1)),
    SourceFile("repo/README.md",  TRUE,  Text(2, 11, 1, 0, 1)),
    SourceFile("repo/README.md",  TRUE,  Text(3, 51, 1, 2, 1)),
    SourceFile("repo/README.md",  TRUE,  Text(4, 52, 1, 2, 1)),
    SourceFile("repo/README.md",  TRUE,  Text(5, 5001, 1, 90, 1)),
    SourceFile("repo/README.md",  FALSE, NoText),
    SourceFile("repo/README.rst", TRUE,  Text(6, 301, 1, 9, 1)),
    SourceFile("repo/README.txt", TRUE,  Text(7, 4999, 0, 80, 0)),
    SourceFile("repo/docs/README.md", TRUE, Text(8, 400, 0, 12, 0)),
    SourceFile("repo/docs/guide.md",  TRUE, Text(9, 50, 0, 3, 0)),
    SourceFile("repo/docs/guide.md",  TRUE, Text(10, 5000, 1, 99, 1)),
    SourceFile("repo/docs/changes.rst", TRUE, Text(11, 5000, 0, 99, 0)),
    SourceFile("repo/docs/usage.md", TRUE, Text(32, 400, 0, 12, 0)),
    SourceFile("repo/notes.txt",  FALSE, NoText),
    PyFile("repo/app/service.py", TRUE, TRUE, Text(12, 6400, 1, 140, 1), Text(13, 120, 0, 2, 0),
           << Node("FunctionDef", "run", 10, 48, Text(14, 900, 0, 38, 0), Text(15, 50, 0, 0, 0)),
              Node("ClassDef", "Service", 50, 140, Text(16, 5200, 0, 90, 0), Text(17, 51, 0, 1, 0)),
              Node("AsyncFunctionDef", "poll", 142, 150, Text(18, 300, 0, 8, 0), Text(19, 80, 0, 0, 0)),
              Node("Assign", "", 152, 152, Text(20, 60, 0, 0, 0), NoText),
              Node("FunctionDef", "stop", 154, 156, Text(21, 49, 0, 2, 0), NoText) >>),
    PyFile("repo/app/broken.py", TRUE, FALSE, Text(22, 700, 0, 20, 0), NoText, <<>>),
    Notebook("repo/nb/demo.ipynb", TRUE,
             << Cell("markdown", Text(23, 82, 2, 1, 1)),
                Cell("code", Text(24, 50, 0, 2, 0)),
                Cell("raw", Text(25, 100, 0, 0, 0)),
                Cell("code", Text(26, 5003, 3, 70, 2)) >>),
    Notebook("repo/nb/bad.ipynb", FALSE, <<>>),
    SourceFile("repo/web/app.js", TRUE, Text(27, 700, 1, 30, 1)),
    SourceFile("repo/data/table.json", TRUE, Text(28, 300, 0, 10, 0)),
    SourceFile("repo/tests/mock_api.py", TRUE, Text(29, 300, 0, 10, 0)),
    SourceFile("repo/build/gen.js", TRUE, Text(30, 300, 0, 10, 0)),
    SourceFile("repo/LICENSE", TRUE, Text(31, 1000, 0, 20, 0)) >>

\* the repositories: at most MaxRepoFiles files, no path twice
Repos ==
    { Pick(FileUniverse, S, 1) :
        S \in { T \in SUBSET (1..Len(FileUniverse)) :
                  /\ Cardinality(T) <= MaxRepoFiles
                  /\ \A i, j \in T :
                       FileUniverse[i].path = FileUniverse[j].path => i = j } }

(***************************************************************************)
(* extract_all_chunks step by step: the README pass, then one file of the  *)
(* text loop or of the code loop at a time (chunking.py:194-330)           *)
(***************************************************************************)
InitExtract ==
    /\ repo \in Repos
    /\ x_pc = "readme"
    /\ x_i = 1
    /\ chunks = <<>>
    /\ cands = <<>>
    /\ IdleRun /\ IdleRetrieve /\ IdleBuild /\ IdleConc

ReadmePass ==
    /\ x_pc = "readme"
    /\ LET r == readme_pass(repo) IN
         IF r.raised
         THEN /\ x_pc' = "raised"
              /\ UNCHANGED <<chunks, cands>>
         ELSE /\ x_pc' = "text"
              /\ cands' = cands \o r.cands
              /\ chunks' = chunks \o Emit(r.cands)
    /\ x_i' = 1
    /\ UNCHANGED repo
    /\ UNCHANGED <<wfvars, rvars, idx, bvars, cvars>>

TextFileStep ==
    /\ x_pc = "text"
    /\ x_i <= Len(TextList(repo))
    /\ LET cs == text_file(TextList(repo)[x_i]) IN
         /\ cands' = cands \o cs
         /\ chunks' = chunks \o Emit(cs)
    /\ x_i' = x_i + 1
    /\ UNCHANGED <<repo, x_pc>>
    /\ UNCHANGED <<wfvars, rvars, idx, bvars, cvars>>

\* the text loop is exhausted: the code loop starts
TextPassEnd ==
    /\ x_pc = "text"
    /\ x_i > Len(TextList(repo))
    /\ x_pc' = "code"
    /\ x_i' = 1
    /\ UNCHANGED <<repo, chunks, cands>>
    /\ UNCHANGED <<wfvars, rvars, idx, bvars, cvars>>

CodeFileStep ==
    /\ x_pc = "code"
    /\ x_i <= Len(CodeList(repo))
    /\ LET cs == code_file(CodeList(repo)[x_i]) IN
         /\ cands' = cands \o cs
         /\ chunks' = chunks \o Emit(cs)
    /\ x_i' = x_i + 1
    /\ UNCHANGED <<repo, x_pc>>
    /\ UNCHANGED <<wfvars, rvars, idx, bvars, cvars>>

\* the code loop is exhausted: return chunks
CodePassEnd ==
    /\ x_pc = "code"
    /\ x_i > Len(CodeList(repo))
    /\ x_pc' = "done"
    /\ UNCHANGED <<repo, x_i, chunks, cands>>
    /\ UNCHANGED <<wfvars, rvars, idx, bvars, cvars>>

NextExtract == ReadmePass \/ TextFileStep \/ TextPassEnd \/ CodeFileStep \/ CodePassEnd

SpecExtract == InitExtract /\ [][NextExtract]_vars

(***************************************************************************)
(* The index builder: _stable_id, _guess_ext, _is_text and                 *)
(* save_to_faiss_split_by_ext (save_to_vector_db.py)                       *)
(***************************************************************************)
\* the keys of the metadata dicts, in the order sort_keys=True puts them
SortedKeys == <<"file_ext", "lines", "name", "source", "type">>

\* the items of a dict ordered by key
RECURSIVE SortFromKey(_, _)
SortFromKey(meta, i) ==
    IF i > Len(SortedKeys) THEN <<>>
    ELSE SelectSeq(meta, LAMBDA kv : kv[1] = SortedKeys[i]) \o SortFromKey(meta, i + 1)

\* "k": "v", "k": "v", ... from the i-th item on
RECURSIVE ItemsFrom(_, _)
ItemsFrom(items, i) ==
    IF i > Len(items) THEN ""
    ELSE "\"" \o items[i][1] \o "\": \"" \o items[i][2] \o "\""
         \o (IF i < Len(items) THEN ", " ELSE "") \o ItemsFrom(items, i + 1)

\* json.dumps(metadata, sort_keys=sort_keys, ensure_ascii=False)
json_dumps(meta, sort_keys) ==
    "{" \o ItemsFrom(IF sort_keys THEN SortFromKey(meta, 1) ELSE meta, 1) \o "}"


\* _stable_id that serialises the metadata in the order of the dict
_stable_id_unsorted(doc) ==
    [content |-> doc.page_content, rest |-> "||" \o json_dumps(doc.metadata, FALSE)]

\* hashlib.md5(text).hexdigest() is modelled by the text it digests, the
\* page content followed by "||" and the JSON of the metadata: equal texts
\* give equal ids, different texts different ids
_stable_id(doc) ==
    [content |-> doc.page_content, rest |-> "||" \o json_dumps(doc.metadata, TRUE)]

_norm_ext(ext) == LStripDots(Lower(ext))

_guess_ext(doc) ==
    LET by_ext == _norm_ext(MetaGet(doc.metadata, "file_ext", ""))
        src == MetaGet(doc.metadata, "source", "")
        by_src == IF by_ext \in {"", "code"} /\ src # ""
                  THEN _norm_ext(Suffix(src)) ELSE by_ext
        name == MetaGet(doc.metadata, "name", "")
    IN  IF by_src = "" /\ name # "" THEN _norm_ext(Suffix(name)) ELSE by_src

TEXT_EXTS == {"md", "rst", "txt"}
CONFIG_EXTS == {"yml", "yaml", "toml", "ini", "cfg"}
NB_EXTS == {"ipynb"}
CODE_EXTS == {"py", "js", "ts", "java", "go", "cpp", "c", "cs", "rb", "php"}

\* _is_text with the extension rules ahead of the rules on the type
_is_text_ext_first(doc) ==
    LET t == Lower(MetaGet(doc.metadata, "type", ""))
        ext == _guess_ext(doc)
        name == Lower(MetaGet(doc.metadata, "name", ""))
    IN  IF ext \in TEXT_EXTS THEN TRUE
        ELSE IF ext \in CODE_EXTS \cup CONFIG_EXTS \cup NB_EXTS THEN FALSE
        ELSE IF Contains(t, "docstring")
           \/ t \in {"readme", "markdown", "inline_comment", "markdown_cell",
                     "module_docstring"}
        THEN TRUE
        ELSE IF t \in {"functiondef", "asyncfunctiondef", "classdef", "code", "ipynb_cell"}
        THEN FALSE
        ELSE IF name \in {"readme.md", "readme.rst", "readme.txt", "license", "license.txt"}
        THEN TRUE
        ELSE IF name = "requirements.txt" THEN TRUE
        ELSE FALSE

_is_text(doc) ==
    LET t == Lower(MetaGet(doc.metadata, "type", ""))
        ext == _guess_ext(doc)
        name == Lower(MetaGet(doc.metadata, "name", ""))
    IN  IF Contains(t, "docstring")
           \/ t \in {"readme", "markdown", "inline_comment", "markdown_cell",
                     "module_docstring"}
        THEN TRUE
        ELSE IF t \in {"functiondef", "asyncfunctiondef", "classdef", "code", "ipynb_cell"}
        THEN FALSE
        ELSE IF ext \in TEXT_EXTS THEN TRUE
        ELSE IF ext \in CODE_EXTS \cup CONFIG_EXTS \cup NB_EXTS THEN FALSE
        ELSE IF name \in {"readme.md", "readme.rst", "readme.txt", "license", "license.txt"}
        THEN TRUE
        ELSE IF name = "requirements.txt" THEN TRUE
        ELSE FALSE

DEFAULT_MIN_CHARS == 30
DEFAULT_MAX_CHARS == 10000


\* the filter with both ends of the range excluded
KeepChunk_open(d, min_chars, max_chars) ==
    /\ d.page_content.len > 0
    /\ min_chars < d.page_content.len /\ d.page_content.len < max_chars

\* d and d.page_content and min_chars <= len(d.page_content) <= max_chars
KeepChunk(d, min_chars, max_chars) ==
    /\ d.page_content.len > 0
    /\ min_chars <= d.page_content.len /\ d.page_content.len <= max_chars

\* FAISS.from_documents(docs, embedder, ids=[_stable_id(d) for d in docs]):
\* one entry per document, under its id
FromDocuments(docs) == [i \in 1..Len(docs) |-> [id |-> _stable_id(docs[i]), doc |-> docs[i]]]

\* the ids an index holds
Ids(index) == { index[i].id : i \in 1..Len(index) }

\* the documents an index holds
Docs(index) == { index[i].doc : i \in 1..Len(index) }

\* a dict written with its keys in another order
Reordered(doc) ==
    [doc EXCEPT !.metadata =
        << doc.metadata[5], doc.metadata[3], doc.metadata[1], doc.metadata[4], doc.metadata[2] >>]

\* the chunks a build is handed
BuildDocs == <<
    Document(Text(1, 200, 0, 7, 0),  "repo/README.md", "text", "readme", "README.md", "1-8"),
    Reordered(Document(Text(1, 200, 0, 7, 0), "repo/README.md", "text", "readme", "README.md", "1-8")),
    Document(Text(40, 30, 0, 1, 0),  "repo/docs/guide.md", "md", "md", "guide.md", "1-2"),
    Document(Text(41, 29, 0, 1, 0),  "repo/requirements.txt", "txt", "txt", "requirements.txt", "1-2"),
    Document(Text(42, 10000, 0, 38, 0), "repo/app/service.py", "code", "functiondef", "run", "10-48"),
    Document(Text(43, 10001, 0, 90, 0), "repo/app/service.py", "code", "classdef", "Service", "50-140"),
    Document(Text(44, 60, 0, 0, 0),  "repo/app/service.py", "code", "functiondef_docstring", "run", "10-48"),
    Document(Text(27, 700, 1, 30, 1), "repo/web/app.js", "code", ".js", "app.js", "1-32"),
    Document(Text(45, 300, 0, 4, 0), "repo/nb/demo.ipynb", "code", "code_cell", "demo.ipynb - cell 1", "cell_1"),
    Document(Text(46, 500, 0, 9, 0), "repo/setup.cfg", "code", ".cfg", "setup.cfg", "1-10"),
    Document(Text(47, 120, 0, 3, 0), "repo/deploy/run.sh", "code", ".sh", "run.sh", "1-4"),
    Document(NoText, "repo/empty.txt", "txt", "txt", "empty.txt", "1-1") >>

\* the arguments of a build: the chunks (at most MaxBuildChunks), min_chars,
\* max_chars
BuildArgs ==
    { [chunks |-> c, min_chars |-> r[1], max_chars |-> r[2]] :
        c \in { Pick(BuildDocs, S, 1) :
                  S \in { T \in SUBSET (1..Len(BuildDocs)) :
                            Cardinality(T) <= MaxBuildChunks } },
        r \in { <<DEFAULT_MIN_CHARS, DEFAULT_MAX_CHARS>>, <<60, 700>> } }

(***************************************************************************)
(* save_to_faiss_split_by_ext step by step, and a second build of the same *)
(* chunks over the indexes the first one saved                             *)
(***************************************************************************)
InitBuild ==
    /\ b_args \in BuildArgs
    /\ b_pc = "filter"
    /\ text_docs = <<>> /\ code_docs = <<>>
    /\ text_index = <<>> /\ code_index = <<>>
    /\ b_ret = [text_count |-> 0, code_count |-> 0]
    /\ b_round = 1
    /\ prev_ids = [text |-> {}, code |-> {}]
    /\ IdleRun /\ IdleRetrieve /\ IdleExtract /\ IdleConc

\* filter once, then split (save_to_vector_db.py:147-151)
FilterSplit ==
    /\ b_pc = "filter"
    /\ LET docs == SelectSeq(b_args.chunks,
                             LAMBDA d : KeepChunk(d, b_args.min_chars, b_args.max_chars))
       IN  /\ text_docs' = SelectSeq(docs, LAMBDA d : _is_text(d))
           /\ code_docs' = SelectSeq(docs, LAMBDA d : ~_is_text(d))
    /\ b_pc' = "build_text"
    /\ UNCHANGED <<b_args, text_index, code_index, b_ret, b_round, prev_ids>>
    /\ UNCHANGED <<wfvars, rvars, idx, xvars, cvars>>

\* the TEXT index is embedded, built and saved, unless the embedding service
\* or FAISS.from_documents raises
BuildText ==
    /\ b_pc = "build_text"
    /\ \E ok \in BOOLEAN :
         IF ok THEN /\ text_index' = FromDocuments(text_docs)
                    /\ b_pc' = "build_code"
         ELSE /\ b_pc' = "raised"
              /\ UNCHANGED text_index
    /\ UNCHANGED <<b_args, text_docs, code_docs, code_index, b_ret, b_round, prev_ids>>
    /\ UNCHANGED <<wfvars, rvars, idx, xvars, cvars>>

\* the CODE index likewise; then the summary is returned
BuildCode ==
    /\ b_pc = "build_code"
    /\ \E ok \in BOOLEAN :
         IF ok THEN /\ code_index' = FromDocuments(code_docs)
                    /\ b_ret' = [text_count |-> Len(text_docs), code_count |-> Len(code_docs)]
                    /\ b_pc' = "returned"
         ELSE /\ b_pc' = "raised"
              /\ UNCHANGED <<code_index, b_ret>>
    /\ UNCHANGED <<b_args, text_docs, code_docs, text_index, b_round, prev_ids>>
    /\ UNCHANGED <<wfvars, rvars, idx, xvars, cvars>>

\* the caller builds again from the same chunks
Rebuild ==
    /\ b_pc = "returned"
    /\ b_round = 1
    /\ prev_ids' = [text |-> Ids(text_index), code |-> Ids(code_index)]
    /\ b_round' = 2
    /\ b_pc' = "filter"
    /\ text_docs' = <<>> /\ code_docs' = <<>>
    /\ UNCHANGED <<b_args, text_index, code_index, b_ret>>
    /\ UNCHANGED <<wfvars, rvars, idx, xvars, cvars>>

NextBuild == FilterSplit \/ BuildText \/ BuildCode \/ Rebuild

SpecBuild == InitBuild /\ [][NextBuild]_vars

(***************************************************************************)
(* The pipeline of main: the chunks extract_all_chunks returns are handed  *)
(* to save_to_faiss_split_by_ext with its default range (main.py:23-24)    *)
(***************************************************************************)
StartBuild ==
    /\ x_pc = "done"
    /\ b_pc = "idle"
    /\ b_args' = [chunks |-> chunks, min_chars |-> DEFAULT_MIN_CHARS,
                  max_chars |-> DEFAULT_MAX_CHARS]
    /\ b_pc' = "filter"
    /\ b_round' = 1
    /\ UNCHANGED <<text_docs, code_docs, text_index, code_index, b_ret, prev_ids>>
    /\ UNCHANGED <<wfvars, rvars, idx, xvars, cvars>>

NextPipeline ==
    \/ ReadmePass \/ TextFileStep \/ TextPassEnd \/ CodeFileStep \/ CodePassEnd
    \/ StartBuild
    \/ FilterSplit \/ BuildText \/ BuildCode \/ Rebuild

SpecPipeline == InitExtract /\ [][NextPipeline]_vars

(***************************************************************************)
(* One chunk of every kind handed to save_to_faiss_split_by_ext with the   *)
(* default range: the type, the file_ext and source the extension is       *)
(* resolved from, and the name vary                                        *)
(***************************************************************************)
\* the chunks: every type t with every pair e of file_ext and source and
\* every name n
ClassifyDocs ==
    { Document(Text(60, 100, 0, 2, 0), e[2], e[1], t, n, "1-3") :
        t \in { "readme", "markdown", "markdown_cell", "inline_comment",
                "module_docstring", "classdef_docstring", "functiondef",
                "asyncfunctiondef", "classdef", "code", "ipynb_cell",
                "notebook_cell", "code_cell", "rst", ".js", "", "README",
                "FunctionDef" },
        e \in { <<"text", "repo/README.md">>, <<"md", "repo/docs/guide.md">>,
                <<".TXT", "repo/notes">>, <<"code", "repo/app/service.py">>,
                <<"code", "repo/nb/demo.ipynb">>, <<"code", "repo/setup.cfg">>,
                <<"code", "repo/deploy/run.sh">>, <<"code", "repo/LICENSE">>,
                <<"", "">> },
        n \in { "README.md", "readme.rst", "LICENSE", "license.txt",
                "requirements.txt", "Requirements.TXT", "run", "notes.txt", "" } }

InitClassify ==
    /\ b_args \in { [chunks |-> <<d>>, min_chars |-> DEFAULT_MIN_CHARS,
                     max_chars |-> DEFAULT_MAX_CHARS] : d \in ClassifyDocs }
    /\ b_pc = "filter"
    /\ text_docs = <<>> /\ code_docs = <<>>
    /\ text_index = <<>> /\ code_index = <<>>
    /\ b_ret = [text_count |-> 0, code_count |-> 0]
    /\ b_round = 1
    /\ prev_ids = [text |-> {}, code |-> {}]
    /\ IdleRun /\ IdleRetrieve /\ IdleExtract /\ IdleConc

SpecClassify == InitClassify /\ [][NextBuild]_vars

(***************************************************************************)
(* Several section runs at once: one graph instance per SectionSpec, each  *)
(* with a state of its own, over one file system.  A step is one node of   *)
(* one instance.                                                           *)
(***************************************************************************)
\* the sections the instances generate (main.py:30-100)
ConcSpecs == << SectionSpec("API Key", "both"), SectionSpec("Objective & Scope", "text") >>

Instances == 1..Len(ConcSpecs)

\* what the grading service returns to the instances
ConcGraderOutputs == {
    Verdict("true", "true", "false", "num", 90, "str"),
    Verdict("true", "true", "false", "num", 74, "str"),
    NonObject("text", "not json") }

\* open(path, "w").write(content) by instance i
WriteFile(i, path, content) ==
    /\ cfiles' = (path :> content) @@ cfiles
    /\ cwrites' = (path :> (Get(cwrites, path, {}) \cup {i})) @@ cwrites

InitConc ==
    /\ inst = [i \in Instances |->
                 [state |-> ("spec" :> ConcSpecs[i]) @@ ("max_retries" :> 1),
                  pc |-> EntryPoint, err |-> "none"]]
    /\ cfiles = <<>>
    /\ cwrites = <<>>
    /\ IdleRun /\ IdleRetrieve /\ IdleExtract /\ IdleBuild

ConcRetrieve(i) ==
    /\ inst[i].pc = "retrieve"
    /\ \E code_res \in RunResults(CodeCorpus, inst[i].state["spec"].k_code),
          text_res \in RunResults(TextCorpus, inst[i].state["spec"].k_text) :
         LET r == n_retrieve(inst[i].state, code_res, text_res) IN
           IF r.raised # "none"
           THEN /\ inst' = [inst EXCEPT ![i].pc = "raised", ![i].err = r.raised]
                /\ UNCHANGED <<cfiles, cwrites>>
           ELSE /\ inst' = [inst EXCEPT ![i].state = Merge(@, r.upd),
                                        ![i].pc = EdgeFrom("retrieve")]
                /\ WriteFile(i, CONTEXT_DUMP, r.upd["context"])
    /\ UNCHANGED <<wfvars, rvars, idx, xvars, bvars>>

ConcWrite(i) ==
    /\ inst[i].pc = "write"
    /\ \E md \in LlmTexts :
         LET r == n_write(inst[i].state, md) IN
           inst' = [inst EXCEPT ![i].state = Merge(@, r.upd),
                                ![i].pc = route_after_write(Merge(inst[i].state, r.upd))]
    /\ UNCHANGED <<cfiles, cwrites>>
    /\ UNCHANGED <<wfvars, rvars, idx, xvars, bvars>>

ConcJudge(i) ==
    /\ inst[i].pc = "judge"
    /\ \E out \in ConcGraderOutputs :
         LET r == n_judge(inst[i].state, out)
             d == decide_pass_or_revise(Merge(inst[i].state, r.upd))
         IN  /\ inst' = [inst EXCEPT ![i].state = Merge(@, r.upd),
                                     ![i].pc = d.next, ![i].err = d.raised]
             /\ WriteFile(i, JudgeDump(inst[i].state["spec"].name), r.upd["_judge"])
    /\ UNCHANGED <<wfvars, rvars, idx, xvars, bvars>>

ConcRevise(i) ==
    /\ inst[i].pc = "revise"
    /\ Get(inst[i].state, "retries", 0) < RetriesCap
    /\ \E fixed \in LlmTexts :
         LET r == n_revise(inst[i].state, fixed) IN
           IF r.raised # "none"
           THEN inst' = [inst EXCEPT ![i].pc = "raised", ![i].err = r.raised]
           ELSE inst' = [inst EXCEPT ![i].state = Merge(@, r.upd),
                                     ![i].pc = EdgeFrom("revise")]
    /\ UNCHANGED <<cfiles, cwrites>>
    /\ UNCHANGED <<wfvars, rvars, idx, xvars, bvars>>

ConcSave(i) ==
    /\ inst[i].pc = "save"
    /\ LET r == n_save(inst[i].state) IN
         /\ inst' = [inst EXCEPT ![i].state = Merge(@, r.upd),
                                 ![i].pc = EdgeFrom("save")]
         /\ WriteFile(i, r.upd["out_path"],
                      SaveText(inst[i].state["spec"].name, inst[i].state["draft"]))
    /\ UNCHANGED <<wfvars, rvars, idx, xvars, bvars>>

NextConc ==
    \E i \in Instances :
        ConcRetrieve(i) \/ ConcWrite(i) \/ ConcJudge(i) \/ ConcRevise(i) \/ ConcSave(i)

SpecConc == InitConc /\ [][NextConc]_vars

(***************************************************************************)
(* Properties                                                              *)
(***************************************************************************)
HasNotes(st) == "_human_notes" \in DOMAIN st /\ st["_human_notes"] # ""
Retries(st) == Get(st, "retries", 0)
MaxRetries(st) == Get(st, "max_retries", DEFAULT_MAX_RETRIES)

\* C1: in every state of a section run started with 0 <= retries <=
\* max_retries, 0 <= retries <= max_retries holds, with or without human notes
C1_RetriesWithinMax ==
    0 <= Retries(state) /\ Retries(state) <= MaxRetries(state)

\* C2: every section run reaches SAVE after finitely many transitions, as long
\* as every call of an external service returns
C2_ReachesSave == <>(last_node = "save" \/ err = "RetrievalError")

\* the state with the human notes taken out
WithoutNotes(st) == [k \in DOMAIN st \ {"_human_notes"} |-> st[k]]

\* C3: with human notes present the routing after JUDGE goes to REVISE whatever
\* the verdict is, and the notes force exactly one REVISE pass: after that
\* pass the routing is the one the verdict alone gives
C3_OneForcedRevise ==
    (HasNotes(state) /\ last_node = "judge") =>
        IF nRevise = 0 THEN pc = "revise"
        ELSE pc = decide_pass_or_revise(WithoutNotes(state)).next

\* a verdict object with every field of the Judge Verdict shape
CompleteVerdict(j) ==
    /\ j.kind = "object"
    /\ j.factual \in {"true", "false"}
    /\ j.cites_ok \in {"true", "false"}
    /\ j.hallucinated \in {"true", "false"}
    /\ j.score_kind = "num"

\* the next state the routing rule names for a complete verdict
RuleNext(j, retries, max_retries) ==
    IF j.factual = "true" /\ j.hallucinated = "false" /\ j.cites_ok = "true"
       /\ j.score >= 75
    THEN "save"
    ELSE IF retries < max_retries THEN "revise" ELSE "save"

\* C4: without human notes the routing of a verdict object is SAVE when factual,
\* not hallucinated, cites_ok and score >= 0.75, else REVISE when retries <
\* max_retries, else SAVE, whatever else the state holds; {factual:false,
\* score:0.9} at retries 0, max_retries 2 gives REVISE
C4_RoutingRule ==
    (last_node = "judge" /\ ~HasNotes(state)) =>
        /\ CompleteVerdict(state["_judge"]) =>
             /\ err = "none"
             /\ pc = RuleNext(state["_judge"], Retries(state), MaxRetries(state))
        /\ ( /\ state["_judge"].kind = "object"
             /\ state["_judge"].factual = "false"
             /\ state["_judge"].score_kind = "num" /\ state["_judge"].score = 90
             /\ Retries(state) = 0 /\ MaxRetries(state) = 2 ) => pc = "revise"

\* the passing verdict of scenario 3 at retries 0, max_retries 2 went to SAVE
C4_Witness ==
    /\ last_node = "judge" /\ ~HasNotes(state) /\ pc = "save"
    /\ state["_judge"] = Verdict("true", "true", "false", "num", 90, "str")
    /\ "retries" \in DOMAIN state /\ state["retries"] = 0
    /\ "max_retries" \in DOMAIN state /\ state["max_retries"] = 2

\* what the grading service returned is not of the Judge Verdict shape
NotVerdictShape(t) == t.kind # "object" \/ t.score_kind \in {"str", "null"}

\* C5: for every text of the grading service that is not of the Judge Verdict
\* shape, JUDGE stores the failing verdict and the routing returns SAVE or
\* REVISE without raising
C5_MalformedNeverRaises ==
    (last_node = "judge" /\ NotVerdictShape(grader_out)) =>
        /\ state["_judge"] = FAILING_VERDICT
        /\ pc \in {"save", "revise"}
        /\ err = "none"

C7_ContextFrozen ==
    [][ /\ pc # "retrieve" =>
             /\ ("context" \in DOMAIN state') = ("context" \in DOMAIN state)
             /\ "context" \in DOMAIN state => state'["context"] = state["context"]
             /\ state'["spec"] = state["spec"]
             /\ nRetrieve' = nRetrieve
        /\ nRetrieve' <= 1
        /\ nWrite' > nWrite => (nRetrieve = 1 /\ "context" \in DOMAIN state)
      ]_vars

\* a run that revised and judged again was saved with the context RETRIEVE wrote
C7_Witness ==
    /\ pc = "END" /\ nRevise >= 1 /\ nJudge >= 2 /\ nRetrieve = 1
    /\ state["context"] # <<>>
    /\ files[CONTEXT_DUMP] = state["context"]

\* review_mode is NONE, in either spelling
IsNone(st) == "review_mode" \in DOMAIN st /\ st["review_mode"] \in {"none", "NONE"}

\* C8: after WRITE the run goes to SAVE if review_mode is NONE and to JUDGE for
\* every other value and for an absent review_mode; with NONE the grading
\* service is never called, no REVISE happens and the saved draft is WRITE's
C8_RouteAfterWrite ==
    /\ last_node = "write" => pc = (IF IsNone(state) THEN "save" ELSE "judge")
    /\ IsNone(state) =>
         /\ nJudge = 0 /\ nRevise = 0 /\ grader_out = EMPTY_TEXT
         /\ pc = "END" =>
              /\ state["draft"] = write_draft
              /\ files[state["out_path"]] = SaveText(state["spec"].name, write_draft)

\* a run with review_mode NONE was saved
C8_Witness ==
    /\ IsNone(state) /\ state["review_mode"] = "NONE"
    /\ pc = "END" /\ last_node = "save" /\ nWrite = 1

\* C9: the string _retrieve returns, separators included, is never longer than
\* MAX_CONTEXT_CHARS
C9_ContextWithinBudget ==
    r_pc = "done" => JoinedLen(Returned) <= MAX_CONTEXT_CHARS

\* C10: after any sequence of insertion attempts no two entries of the context
\* have the same key (source basename, line range)
C10_NoDuplicateKey ==
    \A i, j \in 1..Len(acc.parts) :
        (acc.parts[i].src = acc.parts[j].src /\ acc.parts[i].loc = acc.parts[j].loc)
            => i = j

\* a hit with a key already in the context was offered and left out, under a
\* cap that had room for it
C10_Witness ==
    /\ r_last = "dup" /\ Len(acc.parts) >= 1
    /\ \E e \in { acc.parts[i] : i \in 1..Len(acc.parts) } :
         Get(acc.per_file, e.src, 0) < cap_for(e.src) /\ <<e.src, e.loc>> \in acc.seen

\* the entries of the context that come from source src
EntriesOf(src) == { i \in 1..Len(acc.parts) : acc.parts[i].src = src }

TextOnly(spec) == [spec EXCEPT !.route = "text"]

\* C17: on route TEXT_AND_CODE a CODE index whose load or search fails raises
\* nothing and the context returned is the one a TEXT_ONLY run of the same
\* spec returns; a TEXT index whose load or search fails lets the failure
\* leave the assembler on every route
C17_CodeFailureIsTextOnly ==
    /\ (r_spec.route = "both" /\ idx.code \in {"load_failed", "search_failed"}
            /\ idx.text \in {"no_hits", "hits"})
         => /\ r_pc # "raised"
            /\ r_pc = "done" =>
                 Returned = _retrieve(TextOnly(r_spec), IndexResult(TRUE, TRUE, <<>>),
                                      IndexResult(TRUE, TRUE, t_hits)).ctx
    /\ idx.text = "load_failed" => r_pc \in {"load_text", "raised"}
    /\ idx.text = "search_failed" => r_pc \notin {"add_text", "done"}

\* a TEXT_AND_CODE run whose CODE search failed has returned a context of the
\* TEXT hits
C17_Witness ==
    /\ r_pc = "done" /\ r_spec.route = "both" /\ idx.code = "search_failed"
    /\ Len(acc.parts) >= 2

\* C18: when both indexes are absent, or both searches return no hit, the
\* assembler returns the empty string, no exception reaches the caller and
\* the run goes on to WRITE with an empty context
C18_EmptyContextNotAnError ==
    (/\ last_node = "retrieve"
     /\ \/ idx.code = "load_failed" /\ idx.text = "load_failed"
        \/ idx.code = "no_hits" /\ idx.text = "no_hits")
    => /\ err = "none" /\ pc = "write"
       /\ "context" \in DOMAIN state /\ state["context"] = <<>>

\* C18 as the code has it: when the TEXT search returns no hit and the CODE
\* index is absent, fails, returns no hit or is not searched, the assembler
\* returns the empty string and the run goes on to WRITE with an empty
\* context; when the TEXT index is absent the load raises, whatever the CODE
\* index, and the run ends before WRITE
C18_EmptyContextUnlessTextAbsent ==
    last_node = "retrieve" =>
      /\ (idx.text = "no_hits" /\ (idx.code # "hits" \/ state["spec"].route = "text"))
           => /\ err = "none" /\ pc = "write"
              /\ "context" \in DOMAIN state /\ state["context"] = <<>>
              /\ files[CONTEXT_DUMP] = <<>>
      /\ idx.text = "load_failed"
           => /\ err = "RetrievalError" /\ pc = "raised"
              /\ "context" \notin DOMAIN state /\ nWrite = 0

\* the CODE index is absent, the TEXT search found nothing, and the run is
\* about to write with an empty context
C18_Witness ==
    /\ last_node = "retrieve" /\ state["spec"].route = "both"
    /\ idx.code = "load_failed" /\ idx.text = "no_hits"
    /\ pc = "write" /\ state["context"] = <<>>

\* the candidate was appended to chunks as it is
Emitted(d) == \E j \in 1..Len(chunks) : chunks[j] = d

\* C12: in every extraction pass a candidate of length L is emitted as a chunk
\* exactly when 50 <= L < 5000, any other candidate is dropped whole and none
\* is truncated; every emitted chunk has 50 <= length < 5000
C12_EmittedIffInBounds ==
    /\ \A i \in 1..Len(cands) :
         Emitted(cands[i]) <=>
           (50 <= cands[i].page_content.len /\ cands[i].page_content.len < 5000)
    /\ \A j \in 1..Len(chunks) :
         /\ 50 <= chunks[j].page_content.len /\ chunks[j].page_content.len < 5000
         /\ \E i \in 1..Len(cands) : cands[i] = chunks[j]

\* the files of the repository that cannot be read, decoded or parsed
Unusable(f) == ~f.readable \/ ~f.parses

\* C13: extract_all_chunks never raises because one file, the root README
\* included, cannot be read, decoded or parsed: it skips the file, returns,
\* and the chunks it returns come from the other files
C13_NeverRaisesOnOneFile ==
    /\ x_pc # "raised"
    /\ x_pc = "done" =>
         \A i \in 1..Len(repo) :
            Unusable(repo[i]) =>
              \A j \in 1..Len(chunks) :
                 MetaGet(chunks[j].metadata, "source", "") # repo[i].path

\* the repository has one file, a readable README.md at its root
OnlyRootReadme == Len(repo) = 1 /\ repo[1].path = "repo/README.md" /\ repo[1].readable

\* C14: a repository whose only file is a root README.md yields exactly one
\* chunk, tagged readme, when the trimmed length of the README is within the
\* bounds 50 <= L < 5000, and no chunk when it is below 50: no later pass
\* emits the README again
C14_OnlyReadmeOneChunk ==
    (x_pc = "done" /\ OnlyRootReadme) =>
      LET L == StripText(repo[1].text).len IN
        /\ (50 <= L /\ L < 5000)
             => /\ Len(chunks) = 1
                /\ MetaGet(chunks[1].metadata, "type", "") = "readme"
                /\ chunks[1].page_content = StripText(repo[1].text)
        /\ L < 50 => chunks = <<>>

\* a chunk handed to the build is within the length range of the call
InRange(d) ==
    b_args.min_chars <= d.page_content.len /\ d.page_content.len <= b_args.max_chars

InSeq(d, docs) == \E i \in 1..Len(docs) : docs[i] = d

\* the positions of the chunk list whose chunk is within the range
Surviving == { i \in 1..Len(b_args.chunks) : InRange(b_args.chunks[i]) }

\* C15: the split is total and disjoint: every chunk with
\* min_chars <= length <= max_chars is in exactly one of TEXT and CODE, every
\* other chunk is in neither, and text_count + code_count is the number of
\* chunks within the range
C15_SplitTotalDisjoint ==
    /\ b_pc \in {"build_text", "build_code", "returned"} =>
         /\ \A i \in 1..Len(b_args.chunks) :
              LET d == b_args.chunks[i] IN
                IF InRange(d) THEN InSeq(d, text_docs) # InSeq(d, code_docs)
                ELSE ~InSeq(d, text_docs) /\ ~InSeq(d, code_docs)
         /\ Len(text_docs) + Len(code_docs) = Cardinality(Surviving)
    /\ b_pc = "returned" =>
         /\ \A i \in 1..Len(b_args.chunks) :
              LET d == b_args.chunks[i] IN
                IF InRange(d) THEN (d \in Docs(text_index)) # (d \in Docs(code_index))
                ELSE d \notin Docs(text_index) /\ d \notin Docs(code_index)
         /\ Len(text_index) + Len(code_index) = Cardinality(Surviving)
         /\ b_ret.text_count + b_ret.code_count = Cardinality(Surviving)

\* a build returned with a chunk at each end of the default range in an
\* index, a chunk just outside each end left out, and both indexes filled
C15_Witness ==
    /\ b_pc = "returned"
    /\ b_args.min_chars = 30 /\ b_args.max_chars = 10000
    /\ \E d \in Docs(text_index) : d.page_content.len = 30
    /\ \E d \in Docs(code_index) : d.page_content.len = 10000
    /\ \E i \in 1..Len(b_args.chunks) : ~InRange(b_args.chunks[i])

\* the two dicts hold the same keys with the same values
SameDict(m1, m2) ==
    { m1[i] : i \in 1..Len(m1) } = { m2[i] : i \in 1..Len(m2) }

\* the entries of both indexes
AllEntries ==
    { text_index[i] : i \in 1..Len(text_index) }
    \cup { code_index[i] : i \in 1..Len(code_index) }

\* C16: the stable id is a function of (content, metadata) only: chunks with
\* the same content and the same metadata have the same id whatever the
\* order of the metadata keys, and a second build of an unchanged chunk set
\* gives each partition the same set of ids as the first
C16_StableIds ==
    /\ \A e1, e2 \in AllEntries :
         (e1.doc.page_content = e2.doc.page_content
            /\ SameDict(e1.doc.metadata, e2.doc.metadata))
         => e1.id = e2.id
    /\ (b_round = 2 /\ b_pc = "returned") =>
         (Ids(text_index) = prev_ids.text /\ Ids(code_index) = prev_ids.code)

\* the second build returned, with two chunks in an index that are equal up
\* to the order of their metadata keys, and a non-empty CODE index
C16_Witness ==
    /\ b_round = 2 /\ b_pc = "returned"
    /\ \E e1, e2 \in AllEntries :
         /\ e1.doc.metadata # e2.doc.metadata
         /\ e1.doc.page_content = e2.doc.page_content
         /\ SameDict(e1.doc.metadata, e2.doc.metadata)
    /\ code_index # <<>>

\* C19: instances for different SectionSpecs share no mutable state: no
\* location is written by two instances, and once all have ended each
\* section's markdown file, context dump and judge-verdict dump hold that
\* section's own data
C19_NoSharedLocation ==
    /\ \A p \in DOMAIN cwrites : Cardinality(cwrites[p]) <= 1
    /\ (\A i \in DOMAIN inst : inst[i].pc = "END") =>
         \A i \in DOMAIN inst :
            LET st == inst[i].state
                name == st["spec"].name
            IN  /\ cfiles[SavePath(name)] = SaveText(name, st["draft"])
                /\ cfiles[CONTEXT_DUMP] = st["context"]
                /\ "_judge" \in DOMAIN st => cfiles[JudgeDump(name)] = st["_judge"]

\* the calls of n_revise that returned
CompletedRevises == IF last_node = "revise" /\ pc = "raised" THEN nRevise - 1 ELSE nRevise

\* the run was started with retries = 0
StartedAtZero == Retries(state) = CompletedRevises

\* WRITE runs once and is not entered again after a REVISE; a run without
\* human notes that started at retries = 0 has run REVISE at most max_retries
\* times and JUDGE at most max_retries + 1 times
C20_Counts ==
    /\ nWrite <= 1
    /\ nRevise >= 1 => (nWrite = 1 /\ pc # "write")
    /\ nJudge >= 1 => nWrite = 1
    /\ (~HasNotes(state) /\ StartedAtZero)
         => (nRevise <= MaxRetries(state) /\ nJudge <= MaxRetries(state) + 1)

\* a REVISE replaces the draft, adds 1 to retries, leaves every
\* other key of the state and every file as it was, and hands over to JUDGE
C20_ReviseStep ==
    (pc = "revise" /\ last_node' = "revise")
    => /\ pc' = "judge"
       /\ Retries(state') = Retries(state) + 1
       /\ state'["draft"] \in { Strip(t) : t \in LlmTexts }
       /\ DOMAIN state' = DOMAIN state \cup {"draft", "retries"}
       /\ \A k \in DOMAIN state \ {"draft", "retries"} : state'[k] = state[k]
       /\ files' = files
       /\ nRevise' = nRevise + 1 /\ nWrite' = nWrite /\ nJudge' = nJudge

\* C20: each REVISE replaces the draft, increments retries by exactly 1,
\* changes nothing else and is followed by JUDGE; WRITE executes exactly once
\* and is never re-entered after a REVISE; so a run without human notes
\* started at retries = 0 performs at most max_retries REVISE steps and at
\* most max_retries + 1 JUDGE steps
C20_ReviseThenJudge == []C20_Counts /\ [][C20_ReviseStep]_vars

(***************************************************************************)
(* The order of the attempts and of the entries (graph.py:156-173)         *)
(***************************************************************************)
\* the place of a hit in the order the search of the CODE index returns
RankOf(d) == CHOOSE i \in 1..Len(CodeCorpus) : CodeCorpus[i] = d

\* an entry made from a hit of the CODE index / of the TEXT index
IsCodeEntry(e) == \E i \in 1..Len(CodeCorpus) : CodeCorpus[i].content.id = e.snippet.id
IsTextEntry(e) == \E i \in 1..Len(TextCorpus) : TextCorpus[i].content.id = e.snippet.id

\* the hits of the CODE index are attempted highest score first, and two
\* hits of one score in the order the search returned them
CodeAttemptOrder ==
    \A i, j \in 1..Len(c_hits) :
        i < j => \/ _score_code_hit(c_hits[i]) > _score_code_hit(c_hits[j])
                 \/ /\ _score_code_hit(c_hits[i]) = _score_code_hit(c_hits[j])
                    /\ RankOf(c_hits[i]) < RankOf(c_hits[j])

\* C21: with route "both" the hits of the CODE index are attempted before
\* any hit of the TEXT index, so every CODE entry of the context stands
\* before every TEXT entry; the CODE hits are attempted by descending score
\* and hits of one score keep the order the search returned them in; with
\* route "text" the CODE index is neither loaded nor searched.
C21_CodeFirstSortedStable ==
    /\ \A i, j \in 1..Len(acc.parts) :
           IsCodeEntry(acc.parts[i]) /\ IsTextEntry(acc.parts[j]) => i < j
    /\ CodeAttemptOrder
    /\ r_pc \in {"search_code", "add_code"} =>
           /\ r_spec.route = "both"
           /\ t_hits = <<>>
           /\ \A i \in 1..Len(acc.parts) : IsCodeEntry(acc.parts[i])
    /\ r_spec.route # "both" =>
           /\ r_pc \notin {"search_code", "add_code"}
           /\ c_hits = <<>>
           /\ \A i \in 1..Len(acc.parts) : ~IsCodeEntry(acc.parts[i])

\* a returned context with CODE entries and a TEXT entry, made from CODE hits
\* the sort reordered and among which two have one score
C21_Witness ==
    /\ r_pc = "done"
    /\ r_spec.route = "both"
    /\ \E i, j \in 1..Len(acc.parts) :
           IsCodeEntry(acc.parts[i]) /\ IsTextEntry(acc.parts[j])
    /\ \E i, j \in 1..Len(c_hits) :
           i < j /\ RankOf(c_hits[i]) > RankOf(c_hits[j])
    /\ \E i, j \in 1..Len(c_hits) :
           i < j /\ _score_code_hit(c_hits[i]) = _score_code_hit(c_hits[j])

(***************************************************************************)
(* What one try_add leaves behind (graph.py:137-151)                       *)
(***************************************************************************)
\* the hit the loop of _retrieve is about to hand to try_add
CurrentHit == IF r_pc = "add_code" THEN c_hits[r_i] ELSE t_hits[r_i]

\* the hits of the loop _retrieve is in
CurrentHits == IF r_pc = "add_code" THEN c_hits ELSE t_hits

\* the whole entry of a hit: the tag, then the content cut at SNIPPET_CHARS
WholeEntry(d) ==
    [src |-> Basename(d.source), loc |-> d.lines,
     tag |-> "[the " \o Basename(d.source) \o ":" \o d.lines \o "] ",
     snippet |-> [id |-> d.content.id,
                  len |-> IF d.content.len > SNIPPET_CHARS THEN SNIPPET_CHARS
                          ELSE d.content.len]]

\* the hit is refused: its key was seen, its source is at its cap, or its
\* whole entry does not fit into what is left of the budget
Refused(a, d) ==
    \/ <<Basename(d.source), d.lines>> \in a.seen
    \/ Get(a.per_file, Basename(d.source), 0) >= cap_for(Basename(d.source))
    \/ a.total + Len(WholeEntry(d).tag) + WholeEntry(d).snippet.len > MAX_CONTEXT_CHARS

C22_Step ==
    r_pc \in {"add_code", "add_text"} =>
        /\ Refused(acc, CurrentHit) =>
               /\ acc'.parts = acc.parts
               /\ acc'.seen = acc.seen
               /\ acc'.per_file = acc.per_file
               /\ acc'.total = acc.total
        /\ ~Refused(acc, CurrentHit) =>
               /\ acc'.parts = Append(acc.parts, WholeEntry(CurrentHit))
               /\ acc'.total = acc.total + Len(WholeEntry(CurrentHit).tag)
                                         + WholeEntry(CurrentHit).snippet.len
        /\ r_i < Len(CurrentHits) => r_pc' = r_pc /\ r_i' = r_i + 1

\* C22: a hit whose whole entry (the tag and the content cut at 700
\* characters) would take the running total over the budget is left out, not
\* shortened; a hit left out (over budget, key seen, source at its cap)
\* changes neither the entries nor the seen keys nor the counts per source
\* nor the running total, and the loop goes on to the hits after it.
C22_SkipLeavesAllUnchanged == [][C22_Step]_vars

\* a TEXT hit was left out for the budget alone (its key is still unseen and
\* its source still under its cap) and a hit after it has just been inserted
C22_Witness ==
    /\ r_pc \in {"add_text", "done"}
    /\ r_last = "added"
    /\ \E k \in 1..Len(t_hits) :
           /\ k < Len(t_hits)
           /\ <<Basename(t_hits[k].source), t_hits[k].lines>> \notin acc.seen
           /\ Get(acc.per_file, Basename(t_hits[k].source), 0)
                  < cap_for(Basename(t_hits[k].source))
           /\ acc.parts[Len(acc.parts)] = WholeEntry(t_hits[Len(t_hits)])

(***************************************************************************)
(* The classification of a chunk (save_to_vector_db.py:43-76)              *)
(***************************************************************************)
\* rule (1), TEXT half
TypeIsText(t) ==
    \/ Contains(t, "docstring")
    \/ t \in {"readme", "markdown", "markdown_cell", "module_docstring", "inline_comment"}

\* the rule table, first match wins, as the set of the (type, extension,
\* name) that it makes TEXT; code_types are the types rule (1) makes CODE
TableText(t, ext, name, code_types) ==
    \/ TypeIsText(t)
    \/ /\ ~TypeIsText(t)
       /\ t \notin code_types
       /\ \/ ext \in {"md", "rst", "txt"}
          \/ /\ ext \notin {"md", "rst", "txt"}
             /\ ext \notin {"py", "js", "ts", "java", "go", "cpp", "c", "cs", "rb", "php",
                            "yml", "yaml", "toml", "ini", "cfg", "ipynb"}
             /\ name \in {"readme.md", "readme.rst", "readme.txt", "license",
                          "license.txt", "requirements.txt"}

\* the chunk of the build is in the TEXT split exactly when the table, with
\* these CODE types, makes it TEXT, and in the CODE split otherwise
SplitFollowsTable(code_types) ==
    b_pc \in {"build_text", "build_code", "returned"} /\ Len(b_args.chunks) = 1 =>
        LET d == b_args.chunks[1]
            isText == TableText(Lower(MetaGet(d.metadata, "type", "")), _guess_ext(d),
                                Lower(MetaGet(d.metadata, "name", "")), code_types)
        IN  /\ text_docs = (IF isText THEN <<d>> ELSE <<>>)
            /\ code_docs = (IF isText THEN <<>> ELSE <<d>>)

\* C23 as stated: _is_text is the rule table, first match wins: (1) a type
\* containing "docstring" or in {readme, markdown, markdown_cell,
\* module_docstring, inline_comment} is TEXT, a type in {functiondef,
\* asyncfunctiondef, classdef, code, notebook_cell} is CODE; (2) else a prose
\* extension is TEXT, a code, config or notebook extension is CODE; (3) else
\* the README and LICENSE names and requirements.txt are TEXT; (4) else CODE.
C23_RuleTableNotebookCell ==
    SplitFollowsTable({"functiondef", "asyncfunctiondef", "classdef", "code",
                       "notebook_cell"})

\* C23 amended: the same table with the CODE types of rule (1) being
\* {functiondef, asyncfunctiondef, classdef, code, ipynb_cell}, type and name
\* compared in lower case.
C23_RuleTableIpynbCell ==
    SplitFollowsTable({"functiondef", "asyncfunctiondef", "classdef", "code",
                       "ipynb_cell"})

\* a chunk of type ipynb_cell with a prose extension has been split off as
\* CODE: rule (1) decided before rule (2)
C23_Witness ==
    /\ b_pc = "build_text"
    /\ Len(b_args.chunks) = 1
    /\ MetaGet(b_args.chunks[1].metadata, "type", "") = "ipynb_cell"
    /\ _guess_ext(b_args.chunks[1]) \in {"md", "txt"}
    /\ code_docs = b_args.chunks
    /\ text_docs = <<>>

(***************************************************************************)
(* The README pass and the text pass (chunking.py:197-238)                 *)
(***************************************************************************)
\* the chunks of the README pass and of the text pass, told apart by what
\* each pass writes into file_ext
ReadmeChunks == { j \in 1..Len(chunks) : MetaGet(chunks[j].metadata, "type", "") = "readme" }
TextPassChunks(path) ==
    { j \in 1..Len(chunks) :
        /\ MetaGet(chunks[j].metadata, "file_ext", "") \in {"md", "rst", "txt"}
        /\ MetaGet(chunks[j].metadata, "source", "") = path }

\* the README names present at the root, by their place in the priority order
RootReadmes == { i \in 1..Len(READMES) : Exists(repo, REPO \o "/" \o READMES[i]) }

\* the path of the root README the README pass considers
IsPickedReadme(path) ==
    \E i \in RootReadmes :
        /\ \A j \in RootReadmes : i <= j
        /\ path = REPO \o "/" \o READMES[i]

IsTextFile(f) ==
    \E e \in {".md", ".rst", ".txt"} : EndsWith(Basename(f.path), e)

\* C24: the README pass considers only the first existing file among
\* README.md, README.rst, README.txt and emits at most one readme chunk; the
\* text pass emits one whole-file chunk for every readable *.md, *.rst, *.txt
\* file within the length bounds except exactly that root README, which it
\* never emits again, and it leaves no other text file out.
C24_TextPassSkipsOnlyPickedReadme ==
    x_pc \in {"code", "done"} =>
        /\ Cardinality(ReadmeChunks) <= 1
        /\ \A j \in ReadmeChunks :
               IsPickedReadme(MetaGet(chunks[j].metadata, "source", ""))
        /\ \A i \in 1..Len(repo) :
               IsTextFile(repo[i]) =>
                   Cardinality(TextPassChunks(repo[i].path)) =
                       IF /\ ~IsPickedReadme(repo[i].path)
                          /\ repo[i].readable
                          /\ InBounds(StripText(repo[i].text).len)
                       THEN 1 ELSE 0

(***************************************************************************)
(* Whole-file chunks over the three passes (chunking.py:197-325)           *)
(***************************************************************************)
\* the pass a chunk comes from, by what the passes write into the metadata:
\* type readme (README pass), file_ext md, rst or txt (text pass),
\* file_ext code (code pass)
PassOf(d) ==
    IF MetaGet(d.metadata, "type", "") = "readme" THEN "readme"
    ELSE IF MetaGet(d.metadata, "file_ext", "") \in {"md", "rst", "txt"} THEN "text"
    ELSE "code"

\* a chunk that holds a whole file: the chunks of the README pass and of the
\* text pass, and of the code pass those tagged with the suffix of the file
WholeFile(d) ==
    \/ PassOf(d) \in {"readme", "text"}
    \/ MetaGet(d.metadata, "type", "") = Lower(Suffix(MetaGet(d.metadata, "source", "")))

\* C25: no file has whole-file chunks from more than one pass: a file the
\* README pass or the text pass emitted is not emitted again by the code
\* pass, so the chunks never hold two whole-file chunks of one source path.
\* Stated for the pairs the code pass has a part in: a whole-file chunk of
\* the code pass has a source no earlier whole-file chunk has.
C25_CodePassEmitsNoFileAgain ==
    \A i, j \in 1..Len(chunks) :
        /\ i < j
        /\ WholeFile(chunks[i]) /\ WholeFile(chunks[j])
        /\ PassOf(chunks[j]) = "code"
        => MetaGet(chunks[i].metadata, "source", "") # MetaGet(chunks[j].metadata, "source", "")

(***************************************************************************)
(* The chunks of the extractor as the builder meets them                   *)
(* (chunking.py:194-330, save_to_vector_db.py:146-166)                     *)
(***************************************************************************)
\* the documents of a list have ids that differ two by two
DistinctIds(docs) ==
    \A i, j \in 1..Len(docs) : i < j => _stable_id(docs[i]) # _stable_id(docs[j])

\* C26: no two chunks extract_all_chunks emits have the same content and the
\* same metadata, so the ids handed to each index build differ two by two,
\* and every emitted chunk passes the builder's default length filter
\* [30, 10000].
C26_ChunksDistinctAndKept ==
    /\ \A i, j \in 1..Len(chunks) :
           i < j => ~(/\ chunks[i].page_content = chunks[j].page_content
                      /\ SameDict(chunks[i].metadata, chunks[j].metadata))
    /\ b_pc \in {"build_text", "build_code", "returned"} =>
           /\ DistinctIds(text_docs)
           /\ DistinctIds(code_docs)
           /\ Len(text_docs) + Len(code_docs) = Len(chunks)
           /\ \A i \in 1..Len(chunks) :
                  InSeq(chunks[i], text_docs) \/ InSeq(chunks[i], code_docs)
    /\ b_pc = "returned" =>
           /\ Cardinality(Ids(text_index)) = Len(text_docs)
           /\ Cardinality(Ids(code_index)) = Len(code_docs)

\* both indexes were built from the chunks of a repository, two of which
\* hold the same content under different metadata
C26_Witness ==
    /\ b_pc = "returned"
    /\ text_index # <<>> /\ code_index # <<>>
    /\ \E i, j \in 1..Len(chunks) :
           /\ i < j
           /\ chunks[i].page_content = chunks[j].page_content
           /\ chunks[i].metadata # chunks[j].metadata

====
